---- MODULE Spec2Model ----
(***************************************************************************)
(* A model of the libtest harness (src/src/lib.rs): the filter/sort step   *)
(* (filter_tests), the run loop (run_tests) with its worker threads, the   *)
(* timeout table and the result channel, the executor (run_test,           *)
(* calc_result, bench::benchmark), and the console callback that keeps     *)
(* the counters of ConsoleTestState.                                       *)
(*                                                                         *)
(* Strings are sequences of bytes (naturals).  An Option<T> is a sequence  *)
(* of length 0 (None) or 1 (Some).                                         *)
(***************************************************************************)
EXTENDS Integers, Sequences, FiniteSets, TLC

VARIABLES
    opts,            \* TestOpts given to run_tests / filter_tests
    tests,           \* the Vec<TestDescAndFn> given to run_tests / filter_tests
    pc,              \* position of the run_tests caller (main thread)
    filtered_tests,  \* run_tests: the filtered, converted, padded list
    remaining,       \* run_tests: stack of tests still to dispatch
    filtered_benchs, \* run_tests: benchmarks still to run in the last phase
    pending,         \* run_tests: dispatched tests whose result is not yet handled
    running_tests,   \* run_tests: TestMap, descriptor -> deadline
    rx,              \* the mpsc channel: messages sent and not yet received
    res,             \* run_tests: result of the last recv / recv_timeout
    workers,         \* bodies in execution: set of [idx, desc, testfn, thread]
    panicked,        \* TRUE once run_test or a thread it spawned has ended by panic
    now,             \* the clock (Instant::now()), in seconds
    events,          \* history: the TestEvents handed to the callback, in order
    st,              \* ConsoleTestState counters
    f_pc,            \* filter harness: how often filter_tests has been applied
    f_once,          \* filter harness: filter_tests(opts, tests)
    f_twice,         \* filter harness: filter_tests(opts, f_once)
    x_log,           \* history: calls of run_test, body ends, end of test_main
    sampler,         \* iter: the locals of the sampling loop of a benchmark
    cap,             \* the print and panic sinks of the threads, and the build
    junit            \* JUnitFormatter: results, and the lines written to out

vars == <<opts, tests, pc, filtered_tests, remaining, filtered_benchs, pending,
          running_tests, rx, res, workers, panicked, now, events, st,
          f_pc, f_once, f_twice, x_log, sampler, cap, junit>>

runVars == <<pc, filtered_tests, remaining, filtered_benchs, pending,
             running_tests, rx, res, workers, panicked, now, events, st>>

filterVars == <<f_pc, f_once, f_twice>>

execVars == <<x_log, sampler, cap, junit>>

---------------------------------------------------------------------------
(* Bounds of the model. *)

\* longest input list of the filter harness
MaxLen == 3

\* longest input list of a run
MaxTests == 3

\* largest test_threads value of a run
MaxConcurrency == 2

\* longest input list of a run followed to the end of test_main
MaxMainTests == 2

\* the clock stops advancing here
MaxTime == 120

\* the clock advances in steps of this many seconds
TickStep == 30

---------------------------------------------------------------------------
(* Program constants. *)

TEST_WARN_TIMEOUT_S == 60

---------------------------------------------------------------------------
(* Data model. *)

None == <<>>

Some(x) == <<x>>

StaticTestName(s) == [variant |-> "StaticTestName", s |-> s, padding |-> "PadNone"]

as_slice(name) == name.s

with_padding(name, padding) ==
    [variant |-> "AlignedTestName", s |-> name.s, padding |-> padding]

IsTestFn(testfn) == testfn \in {"StaticTestFn", "DynTestFn"}

padding(testfn) == IF IsTestFn(testfn) THEN "PadNone" ELSE "PadOnRight"

ShouldPanicNo == [kind |-> "No", msg |-> <<>>]

ShouldPanicYes == [kind |-> "Yes", msg |-> <<>>]

YesWithMessage(m) == [kind |-> "YesWithMessage", msg |-> m]

\* TestDescAndFn: desc is the TestDesc, testfn the variant of TestFn.
TestDescAndFn(name, ignore, should_panic, allow_fail, testfn) ==
    [desc |-> [name |-> name, ignore |-> ignore,
               should_panic |-> should_panic, allow_fail |-> allow_fail],
     testfn |-> testfn]

---------------------------------------------------------------------------
(* Strings. *)

\* str::contains: the pattern occurs at some offset of the haystack.
contains(s, p) ==
    \E i \in 1..(Len(s) - Len(p) + 1) : SubSeq(s, i, i + Len(p) - 1) = p

\* str::cmp: lexicographic comparison of the bytes.
RECURSIVE str_cmp(_, _)
str_cmp(a, b) ==
    IF a = <<>> /\ b = <<>> THEN "Equal"
    ELSE IF a = <<>> THEN "Less"
    ELSE IF b = <<>> THEN "Greater"
    ELSE IF Head(a) < Head(b) THEN "Less"
    ELSE IF Head(a) > Head(b) THEN "Greater"
    ELSE str_cmp(Tail(a), Tail(b))

---------------------------------------------------------------------------
(* filter_tests *)

Front(s) == SubSeq(s, 1, Len(s) - 1)

Last(s) == s[Len(s)]

\* matches_filter that ignores filter_exact.
matches_filter_always_substring(o, test, filter) ==
    contains(as_slice(test.desc.name), filter)

matches_filter(o, test, filter) ==
    IF o.filter_exact
    THEN as_slice(test.desc.name) = filter
    ELSE contains(as_slice(test.desc.name), filter)

\* Remove tests that don't match the test filter.
retain_filter(o, ts) ==
    IF o.filter # None
    THEN SelectSeq(ts, LAMBDA t : matches_filter(o, t, o.filter[1]))
    ELSE ts

\* Skip tests that match any of the skip filters.
retain_skip(o, ts) ==
    SelectSeq(ts, LAMBDA t :
        ~ \E i \in DOMAIN o.skip : matches_filter(o, t, o.skip[i]))

\* The exclusion keeps the should_panic tests and drops the others.
retain_should_panic_inverted(o, ts) ==
    IF o.exclude_should_panic
    THEN SelectSeq(ts, LAMBDA t : t.desc.should_panic # [kind |-> "No", msg |-> <<>>])
    ELSE ts

\* Excludes #[should_panic] tests.
retain_should_panic(o, ts) ==
    IF o.exclude_should_panic
    THEN SelectSeq(ts, LAMBDA t : t.desc.should_panic = ShouldPanicNo)
    ELSE ts

\* The ignore bits are left as they are.
clear_ignore_left_out(ts) == ts

clear_ignore(ts) ==
    [i \in DOMAIN ts |-> [ts[i] EXCEPT !.desc.ignore = FALSE]]

\* RunIgnored::Only without its retain.
unignore_only_without_retain(o, ts) ==
    CASE o.run_ignored = "Yes"  -> clear_ignore(ts)
      [] o.run_ignored = "Only" -> clear_ignore(ts)
      [] o.run_ignored = "No"   -> ts

\* maybe unignore tests
unignore(o, ts) ==
    CASE o.run_ignored = "Yes"  -> clear_ignore(ts)
      [] o.run_ignored = "Only" ->
            clear_ignore(SelectSeq(ts, LAMBDA t : t.desc.ignore))
      [] o.run_ignored = "No"   -> ts

\* Insert t into the sorted list s behind every element that is not greater.
RECURSIVE sort_insert(_, _)
sort_insert(s, t) ==
    IF s = <<>> THEN <<t>>
    ELSE IF str_cmp(as_slice(Last(s).desc.name), as_slice(t.desc.name)) = "Greater"
         THEN Append(sort_insert(Front(s), t), Last(s))
         ELSE Append(s, t)

\* An unstable sort: equal names end up in reverse order.
RECURSIVE sort_insert_unstable(_, _)
sort_insert_unstable(s, t) ==
    IF s = <<>> THEN <<t>>
    ELSE IF str_cmp(as_slice(Last(s).desc.name), as_slice(t.desc.name)) = "Less"
         THEN Append(s, t)
         ELSE Append(sort_insert_unstable(Front(s), t), Last(s))

RECURSIVE sort_by_name_unstable(_)
sort_by_name_unstable(ts) ==
    IF ts = <<>> THEN <<>>
    ELSE sort_insert_unstable(sort_by_name_unstable(Front(ts)), Last(ts))

\* The comparison of the sort is turned round: descending names.
RECURSIVE sort_insert_descending(_, _)
sort_insert_descending(s, t) ==
    IF s = <<>> THEN <<t>>
    ELSE IF str_cmp(as_slice(Last(s).desc.name), as_slice(t.desc.name)) = "Less"
         THEN Append(sort_insert_descending(Front(s), t), Last(s))
         ELSE Append(s, t)

RECURSIVE sort_by_name_descending(_)
sort_by_name_descending(ts) ==
    IF ts = <<>> THEN <<>>
    ELSE sort_insert_descending(sort_by_name_descending(Front(ts)), Last(ts))

\* The sort is skipped.
sort_by_name_skipped(ts) == ts

\* Vec::sort_by on the names: a stable sort.
RECURSIVE sort_by_name(_)
sort_by_name(ts) ==
    IF ts = <<>> THEN <<>>
    ELSE sort_insert(sort_by_name(Front(ts)), Last(ts))

filter_tests(o, ts) ==
    sort_by_name(unignore(o, retain_should_panic(o, retain_skip(o, retain_filter(o, ts)))))

---------------------------------------------------------------------------
(* Inputs. *)

SeqsUpTo(S, n) == UNION {[1..k -> S] : k \in 0..n}

FilterNames == {<<2>>, <<1, 2>>}

\* The entries the filter harness draws its input list from.
FilterEntries ==
    {TestDescAndFn(StaticTestName(n), ig, sp, FALSE, "StaticTestFn") :
        n \in FilterNames, ig \in BOOLEAN, sp \in {ShouldPanicNo, ShouldPanicYes}}

\* The options of the filter harness.
FilterOpts ==
    [filter : {None, Some(<<2>>)},
     filter_exact : BOOLEAN,
     skip : {<<>>, << <<1>> >>},
     exclude_should_panic : BOOLEAN,
     run_ignored : {"Yes", "No", "Only"},
     run_tests : {TRUE},
     bench_benchmarks : {FALSE},
     test_threads : {1}]

\* iter has not been called.
SamplerIdle ==
    sampler = [pc |-> "idle", ns_single |-> 0, n |-> 0, total_run |-> 0,
               loops |-> 0, wrapped |-> FALSE]

\* The sinks of a thread: the handles that print and a panic write to; None
\* is the standard stream of the process.
NoSinks == [print |-> None, panic |-> None]

\* The main thread, among the threads of cap.io.
MainThread == 0

\* No thread has touched its sinks.
CaptureIdle ==
    cap = [unstable |-> FALSE, nocapture |-> FALSE, before |-> NoSinks,
           io |-> (MainThread :> NoSinks), oldio |-> <<>>, overlapped |-> FALSE]

\* No JUnitFormatter has been made.
JUnitIdle == junit = [pc |-> "idle", results |-> <<>>, out |-> <<>>]

\* The state of a run that has not been started.
RunIdle ==
    /\ pc = "idle"
    /\ filtered_tests = <<>>
    /\ remaining = <<>>
    /\ filtered_benchs = <<>>
    /\ pending = 0
    /\ running_tests = <<>>
    /\ rx = <<>>
    /\ res = None
    /\ workers = {}
    /\ panicked = FALSE
    /\ now = 0
    /\ events = <<>>
    /\ st = [total |-> 0, passed |-> 0, failed |-> 0, ignored |-> 0,
             allowed_fail |-> 0, measured |-> 0, filtered_out |-> 0,
             failures |-> <<>>, not_failures |-> <<>>]

---------------------------------------------------------------------------
(* The filter harness: filter_tests applied once and then again to its     *)
(* own result, as the tests of lib.rs apply it to a list and options.      *)

InitFilter ==
    /\ opts \in FilterOpts
    /\ tests \in SeqsUpTo(FilterEntries, MaxLen)
    /\ f_pc = "start"
    /\ f_once = <<>>
    /\ f_twice = <<>>
    /\ x_log = <<>>
    /\ SamplerIdle
    /\ CaptureIdle
    /\ JUnitIdle
    /\ RunIdle

FilterOnce ==
    /\ f_pc = "start"
    /\ f_once' = filter_tests(opts, tests)
    /\ f_pc' = "once"
    /\ UNCHANGED <<opts, tests, f_twice, runVars, execVars>>

FilterTwice ==
    /\ f_pc = "once"
    /\ f_twice' = filter_tests(opts, f_once)
    /\ f_pc' = "twice"
    /\ UNCHANGED <<opts, tests, f_once, runVars, execVars>>

NextFilter == FilterOnce \/ FilterTwice

SpecFilter == InitFilter /\ [][NextFilter]_vars

---------------------------------------------------------------------------
(* Claims about filter_tests. *)

Min(a, b) == IF a <= b THEN a ELSE b

\* a <= b in the byte-wise lexicographic order: a is a prefix of b, or the
\* first byte in which they differ is smaller in a.
BytewiseLeq(a, b) ==
    \/ Len(a) <= Len(b) /\ \A k \in 1..Len(a) : a[k] = b[k]
    \/ \E k \in 1..Min(Len(a), Len(b)) :
          /\ \A j \in 1..(k - 1) : a[j] = b[j]
          /\ a[k] < b[k]

NonDecreasingByName(ts) ==
    \A i \in 1..(Len(ts) - 1) :
        BytewiseLeq(as_slice(ts[i].desc.name), as_slice(ts[i + 1].desc.name))

\* C8: the list returned by filter_tests is non-decreasing by byte-wise
\* comparison of the entry names, for every options value and input list.
ThmC8_FilterSorted ==
    /\ f_pc # "start" => NonDecreasingByName(f_once)
    /\ f_pc = "twice" => NonDecreasingByName(f_twice)

\* C8 witness: an input holding a descending pair was filtered without loss.
WitC8_UnsortedInputSorted ==
    /\ f_pc = "once"
    /\ Len(f_once) = Len(tests)
    /\ Len(tests) >= 2
    /\ ~ NonDecreasingByName(tests)

\* C9 as stated: filter_tests(opts, filter_tests(opts, L)) is the same list
\* as filter_tests(opts, L), for every options value.
CexC9_IdempotentAllOptions ==
    f_pc = "twice" => f_twice = f_once

\* C9 amended: filter_tests is idempotent when run_ignored is No or Yes;
\* with run_ignored == Only the second application returns the empty list,
\* the first one having cleared every ignore bit.
ThmC9_IdempotentUnlessOnly ==
    f_pc = "twice" =>
        IF opts.run_ignored = "Only" THEN f_twice = <<>> ELSE f_twice = f_once

\* C9 witness: a second application to a list the first one changed and
\* left with at least two entries.
WitC9_SecondApplication ==
    /\ f_pc = "twice"
    /\ opts.run_ignored # "Only"
    /\ Len(f_once) >= 2
    /\ f_once # tests
    /\ f_twice = f_once

\* p occurs in n: some prefix and suffix of n enclose a copy of p.
IsSubstring(p, n) ==
    \E pre \in 0..Len(n), suf \in 0..Len(n) :
        /\ pre + Len(p) + suf = Len(n)
        /\ \A k \in 1..Len(p) : n[pre + k] = p[k]

NameMatches(n, p) == IF opts.filter_exact THEN n = p ELSE IsSubstring(p, n)

\* The entries C10 says are kept: matching the filter, if one is set, and
\* matching no skip pattern.
KeptByName(n) ==
    /\ opts.filter = None \/ NameMatches(n, opts.filter[1])
    /\ \A i \in DOMAIN opts.skip : ~ NameMatches(n, opts.skip[i])

Occurrences(ts, e) == Cardinality({i \in DOMAIN ts : ts[i] = e})

\* C10: filter_tests keeps an entry only if its name matches the filter (if
\* one is set) and none of the skip patterns, by equality under filter_exact
\* and by substring otherwise; with no other option set, exactly those
\* entries are returned.
ThmC10_FilterAndSkip ==
    f_pc # "start" =>
        /\ \A i \in DOMAIN f_once : KeptByName(as_slice(f_once[i].desc.name))
        /\ (opts.run_ignored = "No" /\ ~ opts.exclude_should_panic) =>
              \A e \in FilterEntries :
                  Occurrences(f_once, e) =
                      IF KeptByName(as_slice(e.desc.name))
                      THEN Occurrences(tests, e) ELSE 0

\* C10 witness: a filter and a skip pattern are set, no other option is, and
\* some entries were dropped and some were kept.
WitC10_FilterAndSkipApplied ==
    /\ f_pc = "once"
    /\ opts.filter # None
    /\ opts.skip # <<>>
    /\ opts.run_ignored = "No"
    /\ ~ opts.exclude_should_panic
    /\ Len(f_once) >= 1
    /\ Len(f_once) < Len(tests)

\* The entry with its ignore bit set to b.
WithIgnore(e, b) == [e EXCEPT !.desc.ignore = b]

\* The positions of the input list whose entries pass the name filters and
\* the should_panic exclusion.
PassingOtherFilters ==
    {i \in DOMAIN tests :
        /\ KeptByName(as_slice(tests[i].desc.name))
        /\ opts.exclude_should_panic => tests[i].desc.should_panic.kind = "No"}

\* How many of the given input positions hold the entry e.
OccurrencesAt(S, e) == Cardinality({i \in S : tests[i] = e})

\* C11: with run_ignored == Only the result holds exactly the entries passing
\* the other filters whose ignore bit was true on input, and every returned
\* entry has ignore == false.
ThmC11_OnlyKeepsIgnored ==
    (f_pc # "start" /\ opts.run_ignored = "Only") =>
        /\ \A i \in DOMAIN f_once : f_once[i].desc.ignore = FALSE
        /\ Len(f_once) =
              Cardinality({i \in PassingOtherFilters : tests[i].desc.ignore})
        /\ \A e \in FilterEntries :
              e.desc.ignore =>
                  Occurrences(f_once, WithIgnore(e, FALSE)) =
                      OccurrencesAt(PassingOtherFilters, e)

\* C11 witness: with Only, an ignored entry was kept and an entry that was
\* not ignored was dropped for that reason alone.
WitC11_IgnoredKeptOthersDropped ==
    /\ f_pc = "once"
    /\ opts.run_ignored = "Only"
    /\ Len(f_once) >= 1
    /\ \E i \in PassingOtherFilters : ~ tests[i].desc.ignore

\* C12: with run_ignored == Yes no entry is dropped on account of its ignore
\* bit and every returned entry has ignore == false; with run_ignored == No
\* every returned entry has the ignore bit it had on input.
ThmC12_YesClearsNoKeeps ==
    /\ (f_pc # "start" /\ opts.run_ignored = "Yes") =>
          /\ \A i \in DOMAIN f_once : f_once[i].desc.ignore = FALSE
          /\ Len(f_once) = Cardinality(PassingOtherFilters)
          /\ \A e \in FilterEntries :
                ~ e.desc.ignore =>
                    Occurrences(f_once, e) =
                        OccurrencesAt(PassingOtherFilters, e)
                            + OccurrencesAt(PassingOtherFilters, WithIgnore(e, TRUE))
    /\ (f_pc # "start" /\ opts.run_ignored = "No") =>
          /\ Len(f_once) = Cardinality(PassingOtherFilters)
          /\ \A e \in FilterEntries :
                Occurrences(f_once, e) = OccurrencesAt(PassingOtherFilters, e)

\* C12 witness: with Yes, an ignored entry and one that was not ignored were
\* both returned.
WitC12_IgnoredAndPlainReturned ==
    /\ f_pc = "once"
    /\ opts.run_ignored = "Yes"
    /\ Len(f_once) >= 2
    /\ \E i, j \in PassingOtherFilters :
          tests[i].desc.ignore /\ ~ tests[j].desc.ignore

\* The positions of the input list whose entries pass the name filters and
\* the run_ignored selection.
PassingButShouldPanic ==
    {i \in DOMAIN tests :
        /\ KeptByName(as_slice(tests[i].desc.name))
        /\ opts.run_ignored = "Only" => tests[i].desc.ignore}

\* C13: with exclude_should_panic every returned entry has should_panic ==
\* No, and the step drops no entry with should_panic == No.
ThmC13_ExcludeShouldPanic ==
    (f_pc # "start" /\ opts.exclude_should_panic) =>
        /\ \A i \in DOMAIN f_once : f_once[i].desc.should_panic.kind = "No"
        /\ Len(f_once) =
              Cardinality({i \in PassingButShouldPanic :
                              tests[i].desc.should_panic.kind = "No"})

\* C13 witness: with exclude_should_panic, a should_panic entry was dropped
\* and another entry was kept.
WitC13_ShouldPanicDropped ==
    /\ f_pc = "once"
    /\ opts.exclude_should_panic
    /\ Len(f_once) >= 1
    /\ \E i \in PassingButShouldPanic : tests[i].desc.should_panic.kind = "Yes"

---------------------------------------------------------------------------
(* Test results, messages and events. *)

TrOk == [tag |-> "TrOk", msg |-> <<>>]

TrFailed == [tag |-> "TrFailed", msg |-> <<>>]

TrFailedMsg(m) == [tag |-> "TrFailedMsg", msg |-> m]

TrIgnored == [tag |-> "TrIgnored", msg |-> <<>>]

TrAllowedFail == [tag |-> "TrAllowedFail", msg |-> <<>>]

\* BenchSamples: mb_s; the summary ns_iter_summ is not modelled.
BenchSamples(mb_s) == [mb_s |-> mb_s]

TrBench(bs) == [tag |-> "TrBench", msg |-> <<>>, bs |-> bs]

\* MonitorMsg: (TestDesc, TestResult, Vec<u8>)
MonitorMsg(desc, result, stdout) ==
    [desc |-> desc, result |-> result, stdout |-> stdout]

TeFiltered(descs) == [type |-> "TeFiltered", descs |-> descs]

TeWait(desc) == [type |-> "TeWait", desc |-> desc]

TeResult(desc, result) == [type |-> "TeResult", desc |-> desc, result |-> result]

TeTimeout(desc) == [type |-> "TeTimeout", desc |-> desc]

TeFilteredOut(n) == [type |-> "TeFilteredOut", n |-> n]

---------------------------------------------------------------------------
(* calc_result *)

\* "Panic did not include expected string '"
PanicDidNotInclude ==
    <<80, 97, 110, 105, 99, 32, 100, 105, 100, 32, 110, 111, 116, 32, 105,
      110, 99, 108, 117, 100, 101, 32, 101, 120, 112, 101, 99, 116, 101, 100,
      32, 115, 116, 114, 105, 110, 103, 32, 39>>

\* "'"
Quote == <<39>>

\* Result<(), Box<dyn Any + Send>>: payload is Some(string) for a String or
\* &'static str payload and None for any other payload.
TaskOk == [ok |-> TRUE, payload |-> None]

TaskErr(payload) == [ok |-> FALSE, payload |-> payload]

\* calc_result without its allow_fail arms.
calc_result_allow_fail_unread(desc, task_result) ==
    IF \/ desc.should_panic.kind = "No" /\ task_result.ok
       \/ desc.should_panic.kind = "Yes" /\ ~ task_result.ok
    THEN TrOk
    ELSE IF desc.should_panic.kind = "YesWithMessage" /\ ~ task_result.ok
    THEN IF /\ task_result.payload # None
            /\ contains(task_result.payload[1], desc.should_panic.msg)
         THEN TrOk
         ELSE TrFailedMsg(PanicDidNotInclude \o desc.should_panic.msg \o Quote)
    ELSE TrFailed

\* calc_result that takes any panic of a YesWithMessage test as a pass.
calc_result_message_unchecked(desc, task_result) ==
    IF \/ desc.should_panic.kind = "No" /\ task_result.ok
       \/ desc.should_panic.kind \in {"Yes", "YesWithMessage"} /\ ~ task_result.ok
    THEN TrOk
    ELSE IF desc.allow_fail THEN TrAllowedFail
    ELSE TrFailed

calc_result(desc, task_result) ==
    IF \/ desc.should_panic.kind = "No" /\ task_result.ok
       \/ desc.should_panic.kind = "Yes" /\ ~ task_result.ok
    THEN TrOk
    ELSE IF desc.should_panic.kind = "YesWithMessage" /\ ~ task_result.ok
    THEN IF /\ task_result.payload # None
            /\ contains(task_result.payload[1], desc.should_panic.msg)
         THEN TrOk
         ELSE IF desc.allow_fail
         THEN TrAllowedFail
         ELSE TrFailedMsg(PanicDidNotInclude \o desc.should_panic.msg \o Quote)
    ELSE IF desc.allow_fail THEN TrAllowedFail
    ELSE TrFailed

\* What a benchmark body does with its Bencher: kind is "iter" (it calls
\* iter, which leaves a summary with the given median), "no_iter" (it
\* returns without calling iter) or "panic"; bytes is the value it leaves in
\* Bencher::bytes, and huge tells that this value is so large that
\* bytes * 1000 does not fit in 64 bits (bytes then stands for the wrapped
\* product divided by 1000).
BenchBody(kind, bytes, huge, median) ==
    [kind |-> kind, bytes |-> bytes, huge |-> huge, median |-> median]

\* The executor unwinds instead of producing a result.
Unwound == [tag |-> "unwound", msg |-> <<>>]

Max(a, b) == IF a >= b THEN a ELSE b

\* bench::benchmark with the no-iter arm reporting a failure.
benchmark_result_no_iter_fails(body) ==
    CASE body.kind = "panic"   -> {TrFailed}
      [] body.kind = "no_iter" -> {TrFailed}
      [] body.kind = "iter"    ->
            {TrBench(BenchSamples((body.bytes * 1000) \div Max(body.median, 1)))}

\* bench::benchmark: the results of the match on catch_unwind(bs.bench(f)).
\* bs.bytes * 1000 is a u64 product: when it overflows, a build with
\* overflow checks panics there and a build without them goes on with the
\* wrapped product.
benchmark_result(body) ==
    CASE body.kind = "panic"   -> {TrFailed}
      [] body.kind = "no_iter" -> {TrBench(BenchSamples(0))}
      [] body.kind = "iter"    ->
            LET ns_iter == Max(body.median, 1)
                mb_s == (body.bytes * 1000) \div ns_iter
            IN IF body.huge
               THEN {Unwound, TrBench(BenchSamples(mb_s))}
               ELSE {TrBench(BenchSamples(mb_s))}

---------------------------------------------------------------------------
(* The console callback of run_tests_console. *)

\* Whether the formatter / log writes of the callback can fail for the event:
\* the TeFilteredOut arm writes nothing.
io_outcomes(event) ==
    IF event.type = "TeFilteredOut" THEN {TRUE} ELSE BOOLEAN

\* The callback with the Bench arm not counting.
callback_bench_not_counted(event, s) ==
    CASE event.type = "TeFiltered"    -> [s EXCEPT !.total = Len(event.descs)]
      [] event.type = "TeFilteredOut" -> [s EXCEPT !.filtered_out = event.n]
      [] event.type = "TeWait"        -> s
      [] event.type = "TeTimeout"     -> s
      [] event.type = "TeResult"      ->
            CASE event.result.tag = "TrOk"          ->
                    [s EXCEPT !.passed = @ + 1,
                              !.not_failures = Append(@, event.desc)]
              [] event.result.tag = "TrIgnored"     -> [s EXCEPT !.ignored = @ + 1]
              [] event.result.tag = "TrAllowedFail" -> [s EXCEPT !.allowed_fail = @ + 1]
              [] event.result.tag = "TrBench"       -> s
              [] event.result.tag = "TrFailed"      ->
                    [s EXCEPT !.failed = @ + 1,
                              !.failures = Append(@, event.desc)]
              [] event.result.tag = "TrFailedMsg"   ->
                    [s EXCEPT !.failed = @ + 1,
                              !.failures = Append(@, event.desc)]

\* The callback with a Timeout event counted as a failure.
callback_timeout_counts_failed(event, s) ==
    CASE event.type = "TeFiltered"    -> [s EXCEPT !.total = Len(event.descs)]
      [] event.type = "TeFilteredOut" -> [s EXCEPT !.filtered_out = event.n]
      [] event.type = "TeWait"        -> s
      [] event.type = "TeTimeout"     -> [s EXCEPT !.failed = @ + 1]
      [] event.type = "TeResult"      ->
            CASE event.result.tag = "TrOk"          ->
                    [s EXCEPT !.passed = @ + 1,
                              !.not_failures = Append(@, event.desc)]
              [] event.result.tag = "TrIgnored"     -> [s EXCEPT !.ignored = @ + 1]
              [] event.result.tag = "TrAllowedFail" -> [s EXCEPT !.allowed_fail = @ + 1]
              [] event.result.tag = "TrBench"       -> [s EXCEPT !.measured = @ + 1]
              [] event.result.tag = "TrFailed"      ->
                    [s EXCEPT !.failed = @ + 1,
                              !.failures = Append(@, event.desc)]
              [] event.result.tag = "TrFailedMsg"   ->
                    [s EXCEPT !.failed = @ + 1,
                              !.failures = Append(@, event.desc)]

\* The state after a callback that returned Ok.  The events of the model do
\* not keep the captured bytes, so an entry of failures and not_failures is
\* the descriptor alone.
callback(event, s) ==
    CASE event.type = "TeFiltered"    -> [s EXCEPT !.total = Len(event.descs)]
      [] event.type = "TeFilteredOut" -> [s EXCEPT !.filtered_out = event.n]
      [] event.type = "TeWait"        -> s
      [] event.type = "TeTimeout"     -> s
      [] event.type = "TeResult"      ->
            CASE event.result.tag = "TrOk"          ->
                    [s EXCEPT !.passed = @ + 1,
                              !.not_failures = Append(@, event.desc)]
              [] event.result.tag = "TrIgnored"     -> [s EXCEPT !.ignored = @ + 1]
              [] event.result.tag = "TrAllowedFail" -> [s EXCEPT !.allowed_fail = @ + 1]
              [] event.result.tag = "TrBench"       -> [s EXCEPT !.measured = @ + 1]
              [] event.result.tag = "TrFailed"      ->
                    [s EXCEPT !.failed = @ + 1,
                              !.failures = Append(@, event.desc)]
              [] event.result.tag = "TrFailedMsg"   ->
                    [s EXCEPT !.failed = @ + 1,
                              !.failures = Append(@, event.desc)]

current_test_count(s) ==
    s.passed + s.failed + s.ignored + s.measured + s.allowed_fail

---------------------------------------------------------------------------
(* run_tests: helpers. *)

\* The conversion leaves the benchmarks as they are.
convert_benchmarks_to_tests_left_out(ts) == ts

\* convert benchmarks to tests, if we're not benchmarking them
convert_benchmarks_to_tests(ts) ==
    [i \in DOMAIN ts |->
        IF IsTestFn(ts[i].testfn) THEN ts[i]
        ELSE [ts[i] EXCEPT !.testfn = "DynTestFn"]]

\* test.desc.name = test.desc.name.with_padding(test.testfn.padding())
pad_names(ts) ==
    [i \in DOMAIN ts |->
        [ts[i] EXCEPT !.desc.name = with_padding(@, padding(ts[i].testfn))]]

descs_of(ts) == [i \in DOMAIN ts |-> ts[i].desc]

\* The reversal is left out.
Reverse_left_out(s) == s

\* Vec::reverse
Reverse(s) == [i \in DOMAIN s |-> s[Len(s) + 1 - i]]

\* The insertion is left out.
insert_left_out(table, desc, timeout) == table

\* HashMap::insert
insert(table, desc, timeout) ==
    [d \in DOMAIN table \cup {desc} |-> IF d = desc THEN timeout ELSE table[d]]

\* The keys stay in the table.
remove_all_keeps_keys(table, descs) == table

\* HashMap::remove of every key in descs
remove_all(table, descs) == [d \in DOMAIN table \ descs |-> table[d]]

\* A removal that leaves the entry in the table.
remove_leaves_entry(table, desc) == table

\* HashMap::remove
remove(table, desc) == remove_all(table, {desc})

\* The comparison with the deadline is strict.
get_timed_out_tests_strictly_after(table, t) == {d \in DOMAIN table : t > table[d]}

\* Every entry of the table counts as timed out, whatever its deadline.
get_timed_out_tests_every_entry(table, t) == DOMAIN table

\* The descriptors get_timed_out_tests removes and returns at instant t.
get_timed_out_tests(table, t) == {d \in DOMAIN table : t >= table[d]}

SetMin(S) == CHOOSE x \in S : \A y \in S : x <= y

calc_timeout(table, t) ==
    IF DOMAIN table = {} THEN None
    ELSE LET next_timeout == SetMin({table[d] : d \in DOMAIN table})
         IN IF next_timeout >= t THEN Some(next_timeout - t) ELSE Some(0)

\* The orders in which the iteration over the HashMap can yield a set.
Orders(S) ==
    {o \in [1..Cardinality(S) -> S] : \A i, j \in DOMAIN o : o[i] = o[j] => i = j}

Ok(x) == <<"Ok", x>>

ErrTimeout == <<"Err", "Timeout">>

RECURSIVE callback_all(_, _)
callback_all(evs, s) ==
    IF evs = <<>> THEN s ELSE callback_all(Tail(evs), callback(Head(evs), s))

\* cfg!(any(target_os = "emscripten", target_arch = "wasm32")) is false
supports_threads == TRUE

\* What a test body can do: return, or panic with a string payload.
TestBodies == {TaskOk, TaskErr(Some(<<1>>))}

\* What a benchmark body of a run can do: call iter, or panic.
BenchBodies ==
    {BenchBody("iter", 0, FALSE, 2), BenchBody("panic", 0, FALSE, 0)}

\* run_test that does not read the ignore bit of the entry.
run_test_ignore_bit_unread(force_ignore, test, concurrency) ==
    IF force_ignore
    THEN /\ rx' = Append(rx, MonitorMsg(test.desc, TrIgnored, <<>>))
         /\ UNCHANGED workers
    ELSE /\ workers' = workers \cup
              {[idx |-> Len(events) + 1, desc |-> test.desc, testfn |-> test.testfn,
                thread |-> IF /\ concurrency = "Yes"
                              /\ IsTestFn(test.testfn)
                              /\ supports_threads
                           THEN "spawned" ELSE "caller"]}
         /\ UNCHANGED rx

\* run_test: an ignored entry is answered at once; any other body starts
\* running, on a fresh thread (a test under Concurrent::Yes) or on the
\* caller's thread.  The spawned body is named by the position of its Wait
\* event.
run_test(force_ignore, test, concurrency) ==
    IF force_ignore \/ test.desc.ignore
    THEN /\ rx' = Append(rx, MonitorMsg(test.desc, TrIgnored, <<>>))
         /\ UNCHANGED workers
    ELSE /\ workers' = workers \cup
              {[idx |-> Len(events) + 1, desc |-> test.desc, testfn |-> test.testfn,
                thread |-> IF /\ concurrency = "Yes"
                              /\ IsTestFn(test.testfn)
                              /\ supports_threads
                           THEN "spawned" ELSE "caller"]}
         /\ UNCHANGED rx

---------------------------------------------------------------------------
(* run_tests driven by run_tests_console. *)

concurrency == opts.test_threads

\* The length of the input is taken after the filter has run.
RunStart_length_taken_late ==
    /\ pc = "start"
    /\ \E filtered \in {filter_tests(opts, tests)} :
       \E converted \in {IF ~ opts.bench_benchmarks
                          THEN convert_benchmarks_to_tests(filtered)
                          ELSE filtered} :
       \E padded \in {pad_names(converted)} :
       \E ev \in {TeFilteredOut(Len(filtered) - Len(padded))} :
          /\ tests' = <<>>
          /\ filtered_tests' = padded
          /\ events' = Append(events, ev)
          /\ \E ok \in io_outcomes(ev) :
                IF ok THEN st' = callback(ev, st) /\ pc' = "filtered_out"
                      ELSE pc' = "err" /\ UNCHANGED st
    /\ UNCHANGED <<opts, remaining, filtered_benchs, pending, running_tests,
                   rx, res, workers, panicked, now, filterVars, execVars>>

\* filter (the input vector is moved into filter_tests), convert and pad;
\* callback(TeFilteredOut(filtered_out))
RunStart ==
    /\ pc = "start"
    /\ \E filtered \in {filter_tests(opts, tests)} :
       \E converted \in {IF ~ opts.bench_benchmarks
                          THEN convert_benchmarks_to_tests(filtered)
                          ELSE filtered} :
       \E padded \in {pad_names(converted)} :
       \E ev \in {TeFilteredOut(Len(tests) - Len(padded))} :
          /\ tests' = <<>>
          /\ filtered_tests' = padded
          /\ events' = Append(events, ev)
          /\ \E ok \in io_outcomes(ev) :
                IF ok THEN st' = callback(ev, st) /\ pc' = "filtered_out"
                      ELSE pc' = "err" /\ UNCHANGED st
    /\ UNCHANGED <<opts, remaining, filtered_benchs, pending, running_tests,
                   rx, res, workers, panicked, now, filterVars, execVars>>

\* The TeFiltered event is not emitted.
EmitFiltered_without_event ==
    /\ pc = "filtered_out"
    /\ remaining' = Reverse(SelectSeq(filtered_tests, LAMBDA e : IsTestFn(e.testfn)))
    /\ filtered_benchs' = SelectSeq(filtered_tests, LAMBDA e : ~ IsTestFn(e.testfn))
    /\ pc' = IF opts.test_threads = 1 THEN "serial" ELSE "outer"
    /\ UNCHANGED <<opts, tests, filtered_tests, pending, running_tests,
                   rx, res, workers, panicked, now, events, st, filterVars, execVars>>

\* callback(TeFiltered(filtered_descs)); partition; remaining.reverse()
EmitFiltered ==
    /\ pc = "filtered_out"
    /\ LET ev == TeFiltered(descs_of(filtered_tests))
       IN /\ events' = Append(events, ev)
          /\ \E ok \in io_outcomes(ev) :
                IF ok
                THEN /\ st' = callback(ev, st)
                     /\ remaining' =
                          Reverse(SelectSeq(filtered_tests, LAMBDA e : IsTestFn(e.testfn)))
                     /\ filtered_benchs' =
                          SelectSeq(filtered_tests, LAMBDA e : ~ IsTestFn(e.testfn))
                     /\ pc' = IF concurrency = 1 THEN "serial" ELSE "outer"
                ELSE pc' = "err" /\ UNCHANGED <<st, remaining, filtered_benchs>>
    /\ UNCHANGED <<opts, tests, filtered_tests, pending, running_tests,
                   rx, res, workers, panicked, now, filterVars, execVars>>

\* The serial loop goes on to the next test without the receive.
SerialDispatch_without_receive ==
    /\ pc = "serial"
    /\ remaining # <<>>
    /\ LET test == Last(remaining)
           ev == TeWait(test.desc)
       IN /\ remaining' = Front(remaining)
          /\ events' = Append(events, ev)
          /\ \E ok \in io_outcomes(ev) :
                IF ok
                THEN /\ st' = callback(ev, st)
                     /\ run_test(~ opts.run_tests, test, "No")
                     /\ pc' = "serial"
                ELSE pc' = "err" /\ UNCHANGED <<st, rx, workers>>
    /\ UNCHANGED <<opts, tests, filtered_tests, filtered_benchs, pending,
                   running_tests, res, panicked, now, filterVars, execVars>>

\* concurrency == 1: pop, callback(TeWait), run_test(.., Concurrent::No)
SerialDispatch ==
    /\ pc = "serial"
    /\ remaining # <<>>
    /\ LET test == Last(remaining)
           ev == TeWait(test.desc)
       IN /\ remaining' = Front(remaining)
          /\ events' = Append(events, ev)
          /\ \E ok \in io_outcomes(ev) :
                IF ok
                THEN /\ st' = callback(ev, st)
                     /\ run_test(~ opts.run_tests, test, "No")
                     /\ pc' = "serial_recv"
                ELSE pc' = "err" /\ UNCHANGED <<st, rx, workers>>
    /\ UNCHANGED <<opts, tests, filtered_tests, filtered_benchs, pending,
                   running_tests, res, panicked, now, filterVars, execVars>>

\* concurrency == 1: rx.recv().unwrap(); callback(TeResult)
SerialRecv ==
    /\ pc = "serial_recv"
    /\ rx # <<>>
    /\ LET ev == TeResult(Head(rx).desc, Head(rx).result)
       IN /\ rx' = Tail(rx)
          /\ events' = Append(events, ev)
          /\ \E ok \in io_outcomes(ev) :
                IF ok THEN st' = callback(ev, st) /\ pc' = "serial"
                      ELSE pc' = "err" /\ UNCHANGED st
    /\ UNCHANGED <<opts, tests, filtered_tests, remaining, filtered_benchs, pending,
                   running_tests, res, workers, panicked, now, filterVars, execVars>>

\* concurrency == 1: the while loop ends
SerialDone ==
    /\ pc = "serial"
    /\ remaining = <<>>
    /\ pc' = "benches"
    /\ UNCHANGED <<opts, tests, filtered_tests, remaining, filtered_benchs, pending,
                   running_tests, rx, res, workers, panicked, now, events, st,
                   filterVars, execVars>>

\* The admission loop runs without the pending < concurrency test.
CanAdmit_unbounded == remaining # <<>>

\* The admission bound is off by one.
CanAdmit_one_over == pending <= concurrency /\ remaining # <<>>

\* while pending < concurrency && !remaining.is_empty()
CanAdmit == pending < concurrency /\ remaining # <<>>

\* The admission loop: pop, insert the deadline, callback(TeWait),
\* run_test(.., Concurrent::Yes), pending += 1
Admit ==
    /\ pc = "outer"
    /\ CanAdmit
    /\ LET test == Last(remaining)
           timeout == now + TEST_WARN_TIMEOUT_S
           ev == TeWait(test.desc)
       IN /\ remaining' = Front(remaining)
          /\ running_tests' = insert(running_tests, test.desc, timeout)
          /\ events' = Append(events, ev)
          /\ \E ok \in io_outcomes(ev) :
                IF ok
                THEN /\ st' = callback(ev, st)
                     /\ run_test(~ opts.run_tests, test, "Yes")
                     /\ pending' = pending + 1
                     /\ pc' = "outer"
                ELSE pc' = "err" /\ UNCHANGED <<st, rx, workers, pending>>
    /\ UNCHANGED <<opts, tests, filtered_tests, filtered_benchs, res, panicked, now,
                   filterVars, execVars>>

\* The outer loop ends as soon as nothing is left to dispatch.
ConcurrentDone_while_pending ==
    /\ pc = "outer"
    /\ remaining = <<>>
    /\ pc' = "benches"
    /\ UNCHANGED <<opts, tests, filtered_tests, remaining, filtered_benchs, pending,
                   running_tests, rx, res, workers, panicked, now, events, st,
                   filterVars, execVars>>

\* while pending > 0 || !remaining.is_empty(): the loop ends
ConcurrentDone ==
    /\ pc = "outer"
    /\ pending = 0
    /\ remaining = <<>>
    /\ pc' = "benches"
    /\ UNCHANGED <<opts, tests, filtered_tests, remaining, filtered_benchs, pending,
                   running_tests, rx, res, workers, panicked, now, events, st,
                   filterVars, execVars>>

\* The run loop is at the head of its inner (wait) loop: either it came back
\* there after a receive that timed out, or the admission loop has ended.
InWait ==
    \/ pc = "wait"
    \/ pc = "outer" /\ ~ CanAdmit /\ pending > 0

\* rx.recv_timeout(timeout) returns a message
RecvTimeoutOk ==
    /\ InWait
    /\ calc_timeout(running_tests, now) # None
    /\ rx # <<>>
    /\ res' = Ok(Head(rx))
    /\ rx' = Tail(rx)
    /\ pc' = "harvest"
    /\ UNCHANGED <<opts, tests, filtered_tests, remaining, filtered_benchs, pending,
                   running_tests, workers, panicked, now, events, st, filterVars, execVars>>

\* rx.recv_timeout(timeout) returns Err(Timeout): the timeout has run down
\* and no message has come
RecvTimeoutExpired ==
    /\ InWait
    /\ calc_timeout(running_tests, now) = Some(0)
    /\ rx = <<>>
    /\ res' = ErrTimeout
    /\ pc' = "harvest"
    /\ UNCHANGED <<opts, tests, filtered_tests, remaining, filtered_benchs, pending,
                   running_tests, rx, workers, panicked, now, events, st, filterVars, execVars>>

\* The delivery leaves the entry of the test in the table.
DeliverResult_entry_kept(msg, table, evs) ==
    LET ev == TeResult(msg.desc, msg.result)
    IN /\ running_tests' = table
       /\ events' = Append(evs, ev)
       /\ res' = None
       /\ \E ok \in io_outcomes(ev) :
             IF ok
             THEN /\ st' = callback_all(SubSeq(evs, Len(events) + 1, Len(evs)) \o <<ev>>, st)
                  /\ pending' = pending - 1
                  /\ pc' = "outer"
             ELSE pc' = "err" /\ UNCHANGED <<st, pending>>

\* The delivery drops the message of a test that was reported as timed out.
DeliverResult_harvested_dropped(msg, table, evs) ==
    IF msg.desc \in DOMAIN table
    THEN LET ev == TeResult(msg.desc, msg.result)
         IN /\ running_tests' = remove(table, msg.desc)
            /\ events' = Append(evs, ev)
            /\ res' = None
            /\ \E ok \in io_outcomes(ev) :
                  IF ok
                  THEN /\ st' = callback_all(SubSeq(evs, Len(events) + 1, Len(evs)) \o <<ev>>, st)
                       /\ pending' = pending - 1
                       /\ pc' = "outer"
                  ELSE pc' = "err" /\ UNCHANGED <<st, pending>>
    ELSE /\ running_tests' = table
         /\ events' = evs
         /\ res' = None
         /\ st' = callback_all(SubSeq(evs, Len(events) + 1, Len(evs)), st)
         /\ pending' = pending - 1
         /\ pc' = "outer"

\* let (desc, result, stdout) = res.unwrap(); running_tests.remove(&desc);
\* callback(TeResult(..))?; pending -= 1
DeliverResult(msg, table, evs) ==
    LET ev == TeResult(msg.desc, msg.result)
    IN /\ running_tests' = remove(table, msg.desc)
       /\ events' = Append(evs, ev)
       /\ res' = None
       /\ \E ok \in io_outcomes(ev) :
             IF ok
             THEN /\ st' = callback_all(SubSeq(evs, Len(events) + 1, Len(evs)) \o <<ev>>, st)
                  /\ pending' = pending - 1
                  /\ pc' = "outer"
             ELSE pc' = "err" /\ UNCHANGED <<st, pending>>

\* A harvest that counts the harvested tests once more.
HarvestedStillPending_counted_twice(timed_out) == pending + Cardinality(timed_out)

\* A harvest that also takes the harvested tests out of the pending count.
HarvestedStillPending_forgotten(timed_out) == pending - Cardinality(timed_out)

\* The pending count after a harvest: the harvest does not touch it.
HarvestedStillPending(timed_out) == pending

\* A wait phase that harvests only when the receive timed out: a received
\* message is delivered without get_timed_out_tests.
Harvest_only_after_timeout ==
    /\ pc = "harvest"
    /\ IF res # ErrTimeout
       THEN DeliverResult(res[2], running_tests, events)
       ELSE LET timed_out == get_timed_out_tests(running_tests, now)
                table == remove_all(running_tests, timed_out)
            IN \E order \in Orders(timed_out) :
               \E n_ok \in {n \in 0..Len(order) :
                               \/ n = Len(order)
                               \/ FALSE \in io_outcomes(TeTimeout(order[n + 1]))} :
                 LET n_called == Min(n_ok + 1, Len(order))
                     evs == events \o [i \in 1..n_called |-> TeTimeout(order[i])]
                 IN /\ running_tests' = table
                    /\ events' = evs
                    /\ IF n_ok < Len(order)
                       THEN /\ pc' = "err"
                            /\ UNCHANGED <<st, pending, res>>
                       ELSE /\ st' = callback_all(SubSeq(evs, Len(events) + 1, Len(evs)), st)
                            /\ pending' = HarvestedStillPending(timed_out)
                            /\ res' = None
                            /\ pc' = "wait"
    /\ UNCHANGED <<opts, tests, filtered_tests, remaining, filtered_benchs,
                   rx, workers, panicked, now, filterVars, execVars>>

\* After recv_timeout: get_timed_out_tests, callback(TeTimeout) for each, and
\* either back to the wait loop (the receive timed out) or on to the delivery
\* of the received message.
Harvest ==
    /\ pc = "harvest"
    /\ LET timed_out == get_timed_out_tests(running_tests, now)
           table == remove_all(running_tests, timed_out)
       IN \E order \in Orders(timed_out) :
          \E n_ok \in {n \in 0..Len(order) :
                          \/ n = Len(order)
                          \/ FALSE \in io_outcomes(TeTimeout(order[n + 1]))} :
            LET n_called == Min(n_ok + 1, Len(order))
                evs == events \o [i \in 1..n_called |-> TeTimeout(order[i])]
            IN IF n_ok < Len(order)
               THEN \* the callback failed for order[n_ok + 1]
                    /\ running_tests' = table
                    /\ events' = evs
                    /\ pc' = "err"
                    /\ UNCHANGED <<st, pending, res>>
               ELSE IF res = ErrTimeout
               THEN /\ running_tests' = table
                    /\ events' = evs
                    /\ st' = callback_all(SubSeq(evs, Len(events) + 1, Len(evs)), st)
                    /\ pending' = HarvestedStillPending(timed_out)
                    /\ res' = None
                    /\ pc' = "wait"
               ELSE DeliverResult(res[2], table, evs)
    /\ UNCHANGED <<opts, tests, filtered_tests, remaining, filtered_benchs,
                   rx, workers, panicked, now, filterVars, execVars>>

\* No deadline is left: rx.recv(), then the delivery
RecvBlocking ==
    /\ InWait
    /\ calc_timeout(running_tests, now) = None
    /\ rx # <<>>
    /\ rx' = Tail(rx)
    /\ DeliverResult(Head(rx), running_tests, events)
    /\ UNCHANGED <<opts, tests, filtered_tests, remaining, filtered_benchs,
                   workers, panicked, now, filterVars, execVars>>

\* if opts.bench_benchmarks: callback(TeWait), run_test(.., Concurrent::No)
BenchDispatch ==
    /\ pc = "benches"
    /\ opts.bench_benchmarks
    /\ filtered_benchs # <<>>
    /\ LET b == Head(filtered_benchs)
           ev == TeWait(b.desc)
       IN /\ filtered_benchs' = Tail(filtered_benchs)
          /\ events' = Append(events, ev)
          /\ \E ok \in io_outcomes(ev) :
                IF ok
                THEN /\ st' = callback(ev, st)
                     /\ run_test(FALSE, b, "No")
                     /\ pc' = "bench_recv"
                ELSE pc' = "err" /\ UNCHANGED <<st, rx, workers>>
    /\ UNCHANGED <<opts, tests, filtered_tests, remaining, pending,
                   running_tests, res, panicked, now, filterVars, execVars>>

\* rx.recv().unwrap(); callback(TeResult) for a benchmark
BenchRecv ==
    /\ pc = "bench_recv"
    /\ rx # <<>>
    /\ LET ev == TeResult(Head(rx).desc, Head(rx).result)
       IN /\ rx' = Tail(rx)
          /\ events' = Append(events, ev)
          /\ \E ok \in io_outcomes(ev) :
                IF ok THEN st' = callback(ev, st) /\ pc' = "benches"
                      ELSE pc' = "err" /\ UNCHANGED st
    /\ UNCHANGED <<opts, tests, filtered_tests, remaining, filtered_benchs, pending,
                   running_tests, res, workers, panicked, now, filterVars, execVars>>

\* Ok(())
RunTestsReturn ==
    /\ pc = "benches"
    /\ ~ opts.bench_benchmarks \/ filtered_benchs = <<>>
    /\ pc' = "done"
    /\ UNCHANGED <<opts, tests, filtered_tests, remaining, filtered_benchs, pending,
                   running_tests, rx, res, workers, panicked, now, events, st,
                   filterVars, execVars>>

\* run_tests has returned or unwound: its receiver is dropped.
ReceiverGone == pc \in {"err", "done", "panic"}

\* A body ends in the given way, having written the given bytes to the
\* capture buffer: the result is computed and sent.  The send fails, and the
\* unwrap panics, once the receiver is dropped.  A panic on the caller's
\* thread unwinds run_test and its caller.
BodyFinishWith(w, body, stdout) ==
    /\ w \in workers
    /\ workers' = workers \ {w}
    /\ \E result \in (IF IsTestFn(w.testfn)
                       THEN {calc_result(w.desc, body)}
                       ELSE benchmark_result(body)) :
         IF result = Unwound \/ ReceiverGone
         THEN /\ panicked' = TRUE
              /\ pc' = IF w.thread = "caller" THEN "panic" ELSE pc
              /\ UNCHANGED rx
         ELSE /\ rx' = Append(rx, MonitorMsg(w.desc, result, stdout))
              /\ UNCHANGED <<panicked, pc>>
    /\ UNCHANGED <<opts, tests, filtered_tests, remaining, filtered_benchs,
                   pending, running_tests, res, now, events, st, filterVars>>

\* A body of a run ends; the bodies of the runs write nothing.
BodyFinish(w) ==
    /\ \E body \in (IF IsTestFn(w.testfn) THEN TestBodies ELSE BenchBodies) :
          BodyFinishWith(w, body, <<>>)
    /\ UNCHANGED execVars

\* Time passes.  The clock is read only for the deadlines of the concurrent
\* path, and only its distance to them can be observed.
Tick ==
    /\ pc \in {"outer", "wait", "harvest"}
    /\ running_tests # <<>>
    /\ now + TickStep <= MaxTime
    /\ now' = now + TickStep
    /\ UNCHANGED <<opts, tests, pc, filtered_tests, remaining, filtered_benchs,
                   pending, running_tests, rx, res, workers, panicked, events, st,
                   filterVars, execVars>>

---------------------------------------------------------------------------
(* The runs. *)

A == <<1>>

B == <<2>>

C == <<1, 2>>

D == <<3>>

\* The entries a run draws its list from.
RunEntries ==
    {TestDescAndFn(StaticTestName(B), FALSE, ShouldPanicNo, FALSE, "StaticTestFn"),
     TestDescAndFn(StaticTestName(A), TRUE, ShouldPanicNo, FALSE, "StaticTestFn"),
     TestDescAndFn(StaticTestName(D), FALSE, ShouldPanicYes, TRUE, "DynTestFn"),
     TestDescAndFn(StaticTestName(C), FALSE, ShouldPanicNo, FALSE, "StaticBenchFn")}

\* The options of a run.
RunOpts ==
    {o \in [filter : {None},
            filter_exact : {FALSE},
            skip : {<<>>},
            exclude_should_panic : {FALSE},
            run_ignored : {"No"},
            run_tests : BOOLEAN,
            bench_benchmarks : BOOLEAN,
            test_threads : 1..MaxConcurrency] :
        o.run_tests \/ o.bench_benchmarks}

Init ==
    /\ opts \in RunOpts
    /\ tests \in SeqsUpTo(RunEntries, MaxTests)
    /\ pc = "start"
    /\ filtered_tests = <<>>
    /\ remaining = <<>>
    /\ filtered_benchs = <<>>
    /\ pending = 0
    /\ running_tests = <<>>
    /\ rx = <<>>
    /\ res = None
    /\ workers = {}
    /\ panicked = FALSE
    /\ now = 0
    /\ events = <<>>
    /\ st = [total |-> 0, passed |-> 0, failed |-> 0, ignored |-> 0,
             allowed_fail |-> 0, measured |-> 0, filtered_out |-> 0,
             failures |-> <<>>, not_failures |-> <<>>]
    /\ f_pc = "start"
    /\ f_once = <<>>
    /\ f_twice = <<>>
    /\ x_log = <<>>
    /\ SamplerIdle
    /\ CaptureIdle
    /\ JUnitIdle

Next ==
    \/ RunStart
    \/ EmitFiltered
    \/ SerialDispatch
    \/ SerialRecv
    \/ SerialDone
    \/ Admit
    \/ ConcurrentDone
    \/ RecvTimeoutOk
    \/ RecvTimeoutExpired
    \/ Harvest
    \/ RecvBlocking
    \/ BenchDispatch
    \/ BenchRecv
    \/ RunTestsReturn
    \/ \E w \in workers : BodyFinish(w)
    \/ Tick

Spec == Init /\ [][Next]_vars

---------------------------------------------------------------------------
(* Claims about the run loop. *)

\* How many events of a type carry the descriptor.
CountEvents(type, desc) ==
    Cardinality({i \in DOMAIN events : events[i].type = type /\ events[i].desc = desc})

OccurrencesOfDesc(ts, desc) == Cardinality({i \in DOMAIN ts : ts[i].desc = desc})

FilteredDescs == {filtered_tests[i].desc : i \in DOMAIN filtered_tests}

EventDescs ==
    {events[i].desc : i \in {j \in DOMAIN events :
                                 events[j].type \in {"TeWait", "TeTimeout", "TeResult"}}}

DistinctDescs ==
    \A i, j \in DOMAIN filtered_tests :
        filtered_tests[i].desc = filtered_tests[j].desc => i = j

\* The descriptors of the Result events, in the order of the events.
ResultDescs ==
    LET results == SelectSeq(events, LAMBDA e : e.type = "TeResult")
    IN [i \in DOMAIN results |-> results[i].desc]

\* Tests dispatched whose Result has not been emitted.
InFlight ==
    Cardinality({i \in DOMAIN events : events[i].type = "TeWait"})
        - Cardinality({i \in DOMAIN events : events[i].type = "TeResult"})

\* Descriptors reported as timed out whose Result has not been emitted.
HarvestedInFlight ==
    {d \in EventDescs : CountEvents("TeTimeout", d) > 0 /\ CountEvents("TeResult", d) = 0}

ThmC2_WaitTimeoutResultOrder ==
    DistinctDescs =>
        \A i \in DOMAIN events :
            /\ events[i].type \in {"TeTimeout", "TeResult"} =>
                  \E j \in 1..(i - 1) :
                      events[j].type = "TeWait" /\ events[j].desc = events[i].desc
            /\ events[i].type = "TeTimeout" =>
                  ~ \E j \in 1..(i - 1) :
                      events[j].type = "TeResult" /\ events[j].desc = events[i].desc

\* C2 witness: some test has got its Wait, then a Timeout, then its Result,
\* and another test was scheduled with it.
WitC2_WaitTimeoutResult ==
    /\ DistinctDescs
    /\ Len(filtered_tests) >= 2
    /\ \E i, j, k \in DOMAIN events :
          /\ i < j /\ j < k
          /\ events[i].type = "TeWait"
          /\ events[j].type = "TeTimeout" /\ events[j].desc = events[i].desc
          /\ events[k].type = "TeResult" /\ events[k].desc = events[i].desc

\* C3: FilteredOut is the first event and Filtered the second, each emitted
\* once, before any Wait, Timeout or Result and before any body is started.
ThmC3_InitialEvents ==
    /\ Len(events) >= 1 => events[1].type = "TeFilteredOut"
    /\ Len(events) >= 2 => events[2].type = "TeFiltered"
    /\ \A i \in DOMAIN events :
          i >= 3 => events[i].type \in {"TeWait", "TeTimeout", "TeResult"}
    /\ (workers # {} \/ rx # <<>> \/ pc = "done") => Len(events) >= 2

\* C3 witness: a body is running after the two initial events and its Wait.
WitC3_BodyStartedAfterInitialEvents ==
    /\ workers # {}
    /\ Len(events) >= 3
    /\ events[1].type = "TeFilteredOut"
    /\ events[2].type = "TeFiltered"
    /\ events[3].type = "TeWait"

\* C4: in the concurrent path the pending counter, which is the number of
\* tests dispatched whose Result has not been emitted, never exceeds K.
ThmC4_PendingAtMostK ==
    concurrency > 1 =>
        /\ pending <= concurrency
        /\ InFlight <= concurrency
        /\ pc \notin {"err", "benches", "bench_recv", "done"} => pending = InFlight

\* C4 witness: K tests are in flight and a further test waits for admission.
WitC4_AdmissionBlocked ==
    /\ concurrency > 1
    /\ pc = "outer"
    /\ pending = concurrency
    /\ remaining # <<>>

\* C5 as stated: a test harvested as timed out no longer counts for
\* admission, so (descriptors pairwise distinct) the admission test passes
\* whenever fewer than K tests that were not harvested are in flight.
CexC5_HarvestedNotCountedForAdmission ==
    (/\ concurrency > 1
     /\ DistinctDescs
     /\ pc \in {"outer", "wait"}
     /\ remaining # <<>>
     /\ InFlight - Cardinality(HarvestedInFlight) < concurrency)
        => pending < concurrency

\* C5 amended: a test harvested as timed out stays counted in pending until
\* its result is delivered; every running body is counted, so the number of
\* simultaneously running test bodies never exceeds K.
ThmC5_HarvestedStillCounted ==
    concurrency > 1 =>
        /\ Cardinality(workers) <= concurrency
        /\ pc \notin {"err", "benches", "bench_recv", "done"} =>
              /\ Cardinality(workers) <= pending
              /\ Cardinality(HarvestedInFlight) <= pending

\* C5 witness: K tests are in flight, one of them harvested and still
\* running, and a further test is kept waiting.
WitC5_HarvestedBlocksAdmission ==
    /\ concurrency > 1
    /\ DistinctDescs
    /\ pc = "wait"
    /\ remaining # <<>>
    /\ pending = concurrency
    /\ \E w \in workers : w.desc \in HarvestedInFlight

\* C6: when run_tests has returned Ok, passed + failed + ignored +
\* allowed_fail + measured == total, and total is the length of the filtered
\* list: the assertion of run_tests_console holds.
ThmC6_CountersSumToTotal ==
    pc = "done" =>
        /\ current_test_count(st) = st.total
        /\ st.total = Len(filtered_tests)

\* C6 witness: a run has returned Ok with three different counters raised.
WitC6_ThreeCounters ==
    /\ pc = "done"
    /\ st.total >= 3
    /\ st.ignored > 0
    /\ st.measured > 0
    /\ st.failed > 0

TestsOf(ts) == SelectSeq(ts, LAMBDA e : e.name.padding = "PadNone")

BenchsOf(ts) == SelectSeq(ts, LAMBDA e : e.name.padding = "PadOnRight")

NonDecreasingDescs(ds) ==
    \A i \in 1..(Len(ds) - 1) :
        BytewiseLeq(as_slice(ds[i].name), as_slice(ds[i + 1].name))

\* C7 as stated: with test_threads == 1 the Results come in the sorted name
\* order of the scheduled entries.
CexC7_SerialResultsSorted ==
    (concurrency = 1 /\ pc = "done") =>
        /\ ResultDescs = descs_of(filtered_tests)
        /\ NonDecreasingDescs(ResultDescs)

\* C7 amended: with test_threads == 1 the Results of the tests come first, in
\* ascending name order, and after them the Results of the benchmarks of the
\* benchmark phase, in ascending name order.
ThmC7_SerialResultsTestsThenBenchs ==
    (concurrency = 1 /\ pc = "done") =>
        /\ ResultDescs =
              TestsOf(descs_of(filtered_tests)) \o BenchsOf(descs_of(filtered_tests))
        /\ NonDecreasingDescs(TestsOf(ResultDescs))
        /\ NonDecreasingDescs(BenchsOf(ResultDescs))

\* C7 witness: a serial run of two tests with different names and a
\* benchmark has returned Ok.
WitC7_SerialTestsAndBench ==
    /\ concurrency = 1
    /\ pc = "done"
    /\ opts.bench_benchmarks
    /\ Len(BenchsOf(ResultDescs)) >= 1
    /\ \E i, j \in DOMAIN TestsOf(ResultDescs) :
          TestsOf(ResultDescs)[i].name # TestsOf(ResultDescs)[j].name

---------------------------------------------------------------------------
(* The executor harness: one entry is prepared as run_tests prepares it    *)
(* (converted unless bench_benchmarks, padded) and handed to run_test      *)
(* once, with force_ignore == !opts.run_tests and in either concurrency    *)
(* mode; the receiver stays alive.  x_log keeps what was done.             *)

\* The expected string of the YesWithMessage entries.
M == <<1>>

\* The entries handed to run_test.
ExecEntries ==
    {TestDescAndFn(StaticTestName(A), ig, sp, af, fn) :
        ig \in BOOLEAN,
        sp \in {ShouldPanicNo, ShouldPanicYes, YesWithMessage(M)},
        af \in BOOLEAN,
        fn \in {"StaticTestFn", "DynTestFn", "StaticBenchFn", "DynBenchFn"}}

ExecOpts ==
    [filter : {None},
     filter_exact : {FALSE},
     skip : {<<>>},
     exclude_should_panic : {FALSE},
     run_ignored : {"No"},
     run_tests : BOOLEAN,
     bench_benchmarks : BOOLEAN,
     test_threads : {1}]

\* What a test body can do: return, panic with a String or &'static str
\* payload (holding the expected string or not), or panic with a payload of
\* another type.
ExecTestBodies ==
    {TaskOk, TaskErr(Some(<<1>>)), TaskErr(Some(<<2, 1, 3>>)),
     TaskErr(Some(<<2>>)), TaskErr(Some(<<>>)), TaskErr(None)}

\* What a benchmark body can do: call iter or not, set Bencher::bytes, panic.
ExecBenchBodies ==
    {BenchBody("iter", 0, FALSE, 2), BenchBody("iter", 3, FALSE, 2),
     BenchBody("iter", 3, FALSE, 0), BenchBody("iter", 3, TRUE, 2),
     BenchBody("no_iter", 0, FALSE, 0), BenchBody("no_iter", 3, TRUE, 0),
     BenchBody("panic", 0, FALSE, 0), BenchBody("panic", 3, TRUE, 0)}

\* What the capture buffer can hold when a body ends: nothing, or the bytes
\* the body wrote.
ExecCaptures == {<<>>, <<7>>}

InitExec ==
    /\ opts \in ExecOpts
    /\ tests \in {<<e>> : e \in ExecEntries}
    /\ pc = "exec_start"
    /\ filtered_tests = <<>>
    /\ remaining = <<>>
    /\ filtered_benchs = <<>>
    /\ pending = 0
    /\ running_tests = <<>>
    /\ rx = <<>>
    /\ res = None
    /\ workers = {}
    /\ panicked = FALSE
    /\ now = 0
    /\ events = <<>>
    /\ st = [total |-> 0, passed |-> 0, failed |-> 0, ignored |-> 0,
             allowed_fail |-> 0, measured |-> 0, filtered_out |-> 0,
             failures |-> <<>>, not_failures |-> <<>>]
    /\ f_pc = "start"
    /\ f_once = <<>>
    /\ f_twice = <<>>
    /\ x_log = <<>>
    /\ SamplerIdle
    /\ CaptureIdle
    /\ JUnitIdle

\* run_test(opts, !opts.run_tests, test, tx.clone(), concurrency)
ExecCall ==
    /\ pc = "exec_start"
    /\ LET converted == IF ~ opts.bench_benchmarks
                        THEN convert_benchmarks_to_tests(tests)
                        ELSE tests
           test == pad_names(converted)[1]
       IN /\ filtered_tests' = <<test>>
          /\ UNCHANGED <<sampler, cap, junit>>
          /\ \E c \in {"Yes", "No"} :
                /\ run_test(~ opts.run_tests, test, c)
                /\ x_log' = Append(x_log,
                       [step |-> "call", test |-> test, concurrency |-> c,
                        force_ignore |-> ~ opts.run_tests,
                        body_invoked |-> workers' # workers])
    /\ pc' = "exec_called"
    /\ UNCHANGED <<opts, tests, remaining, filtered_benchs, pending, running_tests,
                   res, panicked, now, events, st, filterVars>>

\* The body run_test has invoked ends.
ExecBodyFinish ==
    \E w \in workers :
    \E body \in (IF IsTestFn(w.testfn) THEN ExecTestBodies ELSE ExecBenchBodies) :
    \E stdout \in ExecCaptures :
        /\ BodyFinishWith(w, body, stdout)
        /\ UNCHANGED <<sampler, cap, junit>>
        /\ x_log' = Append(x_log,
               [step |-> "body", desc |-> w.desc, testfn |-> w.testfn,
                thread |-> w.thread, body |-> body])

NextExec == ExecCall \/ ExecBodyFinish

SpecExec == InitExec /\ [][NextExec]_vars

---------------------------------------------------------------------------
(* Claims about the executor. *)

\* The steps of the history of the given kind.
LogSteps(step) == {i \in DOMAIN x_log : x_log[i].step = step}

\* The entry run_test was called with.
Called == x_log[1].test

\* The classification table: the outcome for a should_panic value, a body
\* result r and allow_fail.
Classified(should_panic, r, allow_fail) ==
    LET panicked_with_m ==
            /\ ~ r.ok
            /\ r.payload # None
            /\ IsSubstring(should_panic.msg, r.payload[1])
        failure == IF allow_fail THEN "TrAllowedFail" ELSE "TrFailed"
    IN CASE should_panic.kind = "No" ->
              [tag |-> IF r.ok THEN "TrOk" ELSE failure, msg |-> <<>>]
         [] should_panic.kind = "Yes" ->
              [tag |-> IF ~ r.ok THEN "TrOk" ELSE failure, msg |-> <<>>]
         [] should_panic.kind = "YesWithMessage" ->
              IF panicked_with_m THEN [tag |-> "TrOk", msg |-> <<>>]
              ELSE IF r.ok \/ allow_fail THEN [tag |-> failure, msg |-> <<>>]
              ELSE [tag |-> "TrFailedMsg",
                    msg |-> PanicDidNotInclude \o should_panic.msg \o <<39>>]

\* C14: the outcome sent for a test body is the one of the classification
\* table, for every should_panic value, body result and allow_fail; it is
\* never Ignored or Bench.
ThmC14_CalcResultTable ==
    \A i \in LogSteps("body") :
        IsTestFn(x_log[i].testfn) =>
            /\ Len(rx) = 1
            /\ rx[1].result =
                  Classified(x_log[i].desc.should_panic, x_log[i].body,
                             x_log[i].desc.allow_fail)
            /\ rx[1].result.tag \in {"TrOk", "TrFailed", "TrFailedMsg", "TrAllowedFail"}

\* C14 witness: a YesWithMessage test without allow_fail has panicked with a
\* string that lacks the expected one and got FailedMsg.
WitC14_FailedMsg ==
    /\ Len(rx) = 1
    /\ rx[1].result.tag = "TrFailedMsg"
    /\ \E i \in LogSteps("body") :
          /\ x_log[i].body.payload # None
          /\ x_log[i].body.payload[1] # <<>>

\* C15 as stated: no entry with allow_fail that run_test executes, test or
\* benchmark, has Failed or FailedMsg sent as its outcome.
CexC15_AllowFailNeverFailed ==
    \A k \in DOMAIN rx :
        rx[k].desc.allow_fail => rx[k].result.tag \notin {"TrFailed", "TrFailedMsg"}

\* C15 amended: an entry with allow_fail that run_test executes as a test (a
\* test, or a benchmark converted to a test) never has Failed or FailedMsg
\* sent as its outcome; a benchmark run by the sampler whose body panics has
\* Failed sent, whatever its allow_fail.
ThmC15_AllowFailOfTests ==
    \A i \in LogSteps("body") :
        /\ (IsTestFn(x_log[i].testfn) /\ x_log[i].desc.allow_fail) =>
              /\ Len(rx) = 1
              /\ rx[1].desc = x_log[i].desc
              /\ rx[1].result.tag \in {"TrOk", "TrAllowedFail"}
        /\ (~ IsTestFn(x_log[i].testfn) /\ x_log[i].body.kind = "panic") =>
              /\ Len(rx) = 1
              /\ rx[1].desc = x_log[i].desc
              /\ rx[1].result = TrFailed

\* C15 witness: a benchmark with allow_fail, converted to a test, has failed
\* and got AllowedFail.
WitC15_ConvertedBenchAllowedFail ==
    /\ ~ IsTestFn(tests[1].testfn)
    /\ tests[1].desc.allow_fail
    /\ Len(rx) = 1
    /\ rx[1].result = TrAllowedFail
    /\ LogSteps("body") # {}

\* run_test was called with force_ignore set or with an ignored entry.
CalledIgnored ==
    /\ x_log # <<>>
    /\ x_log[1].force_ignore \/ Called.desc.ignore

\* C16: when force_ignore is set or the ignore bit of the entry is true,
\* run_test sends exactly one message (desc, Ignored, empty capture) and
\* never invokes the body, for every entry kind and in both concurrency modes.
ThmC16_IgnoredNotRun ==
    CalledIgnored =>
        /\ Len(rx) = 1
        /\ rx[1].desc = Called.desc
        /\ rx[1].result.tag = "TrIgnored"
        /\ rx[1].stdout = <<>>
        /\ ~ x_log[1].body_invoked
        /\ workers = {}
        /\ LogSteps("body") = {}
        /\ ~ panicked

\* C16 witness: run_test has returned from a call in Concurrent::Yes mode
\* with a benchmark whose ignore bit alone made it ignored.
WitC16_IgnoredBenchmark ==
    /\ pc = "exec_called"
    /\ Called.desc.ignore
    /\ ~ x_log[1].force_ignore
    /\ x_log[1].concurrency = "Yes"
    /\ ~ IsTestFn(Called.testfn)
    /\ rx # <<>>

\* C17 as stated: a call of run_test on an entry that is not ignored invokes
\* the body exactly once and sends exactly one message, which carries the
\* descriptor of the entry, for every entry kind, whether the body returns
\* or panics, and in both concurrency modes.
CexC17_OneBodyOneMessage ==
    (x_log # <<>> /\ ~ CalledIgnored) =>
        /\ x_log[1].body_invoked
        /\ Cardinality(workers) + Cardinality(LogSteps("body")) = 1
        /\ workers # {} => rx = <<>>
        /\ workers = {} => Len(rx) = 1 /\ rx[1].desc = Called.desc

\* C18 as stated: neither run_test nor a thread it spawned ends by panic,
\* also when a worker finishes after the run loop has returned.
CexC18_ExecutorNeverPanics == ~ panicked

\* C19: a benchmark whose body never calls iter has exactly one message
\* sent, with outcome Bench and mb_s == 0; a benchmark whose body panics has
\* exactly one message sent, with outcome Failed.
ThmC19_BenchNoIterAndPanic ==
    \A i \in LogSteps("body") :
        ~ IsTestFn(x_log[i].testfn) =>
            /\ x_log[i].body.kind = "no_iter" =>
                  /\ Len(rx) = 1
                  /\ rx[1].desc = x_log[i].desc
                  /\ rx[1].result.tag = "TrBench"
                  /\ rx[1].result.bs.mb_s = 0
            /\ x_log[i].body.kind = "panic" =>
                  /\ Len(rx) = 1
                  /\ rx[1].desc = x_log[i].desc
                  /\ rx[1].result.tag = "TrFailed"

\* C19 witness: a benchmark body has set the bytes hint and returned without
\* calling iter, and its message is in the channel.
WitC19_NoIterWithBytes ==
    /\ Len(rx) = 1
    /\ rx[1].result.tag = "TrBench"
    /\ \E i \in LogSteps("body") :
          /\ ~ IsTestFn(x_log[i].testfn)
          /\ x_log[i].body.kind = "no_iter"
          /\ x_log[i].body.bytes > 0

---------------------------------------------------------------------------
(* Claims about the benchmark phase of the run loop. *)

\* The descriptor of an entry run in the benchmark phase: only these keep
\* the padding of a benchmark.
IsBenchDesc(d) == d.name.padding = "PadOnRight"

\* How many of the first n events are of the type and carry a benchmark
\* (bench = TRUE) or a test (bench = FALSE) descriptor.
CountBefore(n, type, bench) ==
    Cardinality({j \in 1..n :
        events[j].type = type /\ IsBenchDesc(events[j].desc) = bench})

\* C20: no Wait of a benchmark is emitted before the Result of every test,
\* and the Result of each benchmark is emitted before the Wait of the next
\* one: at most one benchmark is in flight, and no test with it, also in
\* concurrent mode.
ThmC20_BenchmarksLastAndSerial ==
    /\ \A i \in DOMAIN events :
          (events[i].type = "TeWait" /\ IsBenchDesc(events[i].desc)) =>
              /\ CountBefore(i - 1, "TeResult", FALSE)
                    = Len(TestsOf(descs_of(filtered_tests)))
              /\ CountBefore(i - 1, "TeWait", TRUE)
                    = CountBefore(i - 1, "TeResult", TRUE)
    /\ Cardinality({w \in workers : ~ IsTestFn(w.testfn)}) <= 1
    /\ (\E w \in workers : ~ IsTestFn(w.testfn)) =>
          /\ \A w \in workers : ~ IsTestFn(w.testfn)
          /\ pending = 0
          /\ InFlight = 1

\* C20 witness: a concurrent run with a test that was reported as timed out
\* has gone on to run two benchmarks and has returned.
WitC20_ConcurrentThenBenchmarks ==
    /\ pc = "done"
    /\ concurrency >= 2
    /\ Len(BenchsOf(ResultDescs)) >= 2
    /\ Len(TestsOf(ResultDescs)) >= 1
    /\ \E i \in DOMAIN events : events[i].type = "TeTimeout"

---------------------------------------------------------------------------
(* Runs over a test and a benchmark, with the bodies logged in x_log.  The *)
(* threads of the program keep running, the bodies end and the clock      *)
(* advances, so a run does not stop while a step is possible.             *)

\* The entries these runs draw their list from: a test and a benchmark.
LoggedEntries ==
    {TestDescAndFn(StaticTestName(B), FALSE, ShouldPanicNo, FALSE, "StaticTestFn"),
     TestDescAndFn(StaticTestName(C), FALSE, ShouldPanicNo, FALSE, "StaticBenchFn")}

InitLogged ==
    /\ Init
    /\ \A i \in DOMAIN tests : tests[i] \in LoggedEntries

\* A body of a run ends; x_log keeps the bodies whose result was sent.
BodyFinishLogged ==
    \E w \in workers :
    \E body \in (IF IsTestFn(w.testfn) THEN TestBodies ELSE BenchBodies) :
        /\ BodyFinishWith(w, body, <<>>)
        /\ UNCHANGED <<sampler, cap, junit>>
        /\ x_log' = IF rx' = rx THEN x_log
                    ELSE Append(x_log,
                           [step |-> "body", desc |-> w.desc, testfn |-> w.testfn,
                            thread |-> w.thread, body |-> body])

NextLogged ==
    \/ RunStart
    \/ EmitFiltered
    \/ SerialDispatch
    \/ SerialRecv
    \/ SerialDone
    \/ Admit
    \/ ConcurrentDone
    \/ RecvTimeoutOk
    \/ RecvTimeoutExpired
    \/ Harvest
    \/ RecvBlocking
    \/ BenchDispatch
    \/ BenchRecv
    \/ RunTestsReturn
    \/ BodyFinishLogged
    \/ Tick

SpecLogged == InitLogged /\ [][NextLogged]_vars /\ WF_vars(NextLogged)

---------------------------------------------------------------------------
(* Claims about timeouts and the end of the run. *)

\* The position of the last event of the type that carries the descriptor,
\* 0 if there is none.
LastEvent(type, desc) ==
    LET S == {i \in DOMAIN events : events[i].type = type /\ events[i].desc = desc}
    IN IF S = {} THEN 0 ELSE CHOOSE i \in S : \A j \in S : j <= i

\* Descriptors whose last Timeout has no Result after it.
TimedOutNoResult ==
    {d \in EventDescs : LastEvent("TeTimeout", d) > LastEvent("TeResult", d)}

\* The Result events that answer a body: run_test itself answers for an
\* ignored entry, and no body yields TrIgnored.
BodyResults == SelectSeq(events, LAMBDA e : e.type = "TeResult" /\ e.result # TrIgnored)

\* The bodies that have ended, in the order in which they ended.
BodiesEnded == SelectSeq(x_log, LAMBDA e : e.step = "body")

\* The results the executor can send for a body that ended.
ResultsOfBody(e) ==
    IF IsTestFn(e.testfn) THEN {calc_result(e.desc, e.body)}
    ELSE benchmark_result(e.body)

\* Every Result event that answers a body carries the descriptor of a body
\* that ended and the outcome of that body, in the order in which the bodies
\* ended.
ResultsAreBodyOutcomes ==
    /\ Len(BodyResults) <= Len(BodiesEnded)
    /\ \A i \in DOMAIN BodyResults :
          /\ BodyResults[i].desc = BodiesEnded[i].desc
          /\ BodyResults[i].result \in ResultsOfBody(BodiesEnded[i])

\* C21: a timeout is advisory.  Once a Timeout event has been emitted for a
\* test, a Result event for it follows unless a callback fails; run_tests
\* does not return Ok while a Timeout is without a later Result; and every
\* Result event that answers a body carries the outcome that body produced.
ThmC21_TimeoutThenResult ==
    /\ [](pc = "done" => TimedOutNoResult = {})
    /\ []ResultsAreBodyOutcomes
    /\ (TimedOutNoResult # {}) ~> (TimedOutNoResult = {} \/ pc = "err")

\* A run that returned Ok in which a test was reported as timed out and its
\* body then failed: the Result after the Timeout is Failed.
WitC21_TimedOutThenFailed ==
    /\ pc = "done"
    /\ \E i, j \in DOMAIN events :
          /\ i < j
          /\ events[i].type = "TeTimeout"
          /\ events[j].type = "TeResult"
          /\ events[j].desc = events[i].desc
          /\ events[j].result = TrFailed
    /\ \E k \in DOMAIN x_log : x_log[k].body = TaskErr(Some(<<1>>))

\* The step emits a Result event in the concurrent loop.
ResultDelivered ==
    /\ concurrency >= 2
    /\ pc \in {"outer", "wait", "harvest"}
    /\ Len(events') > Len(events)
    /\ events'[Len(events')].type = "TeResult"

\* The message delivered by the step was received at or after the deadline
\* of its test: the deadline in the table has been reached when the expired
\* entries are collected, which is not before the receive returned, or the
\* entry has left the table, which for distinct descriptors only a harvest
\* at or after the deadline does.
DeliveredLate ==
    LET d == events'[Len(events')].desc
    IN \/ d \notin DOMAIN running_tests
       \/ now >= running_tests[d]

\* C22: in the concurrent path, with distinct descriptors, a test whose
\* result is received at or after its deadline has a Timeout event before
\* its Result event; and when run_tests returns Ok the counters still sum
\* to total.
ThmC22_LateResultAfterTimeout ==
    /\ [][ResultDelivered /\ DistinctDescs /\ DeliveredLate =>
            \E i \in 1..(Len(events') - 1) :
                events'[i] = TeTimeout(events'[Len(events')].desc)]_vars
    /\ [](pc = "done" => current_test_count(st) = st.total)

\* recv_timeout has returned the message of a test exactly at its deadline,
\* the entry still in the table, in a run of distinct descriptors with K >= 2.
WitC22_ReceivedAtDeadline ==
    /\ concurrency >= 2
    /\ DistinctDescs
    /\ pc = "harvest"
    /\ res # ErrTimeout
    /\ res[2].desc \in DOMAIN running_tests
    /\ now = running_tests[res[2].desc]

---------------------------------------------------------------------------
(* test_main after the options are parsed, for a run (opts.list unset):    *)
(* run_tests_console drives run_tests and ends with write_run_finish, and  *)
(* test_main turns what it returns into the way the process ends.  x_log   *)
(* keeps the end.                                                          *)

ErrIo == <<"Err", "Io">>

\* An allowed failure makes the run unsuccessful too.
write_run_finish_allowed_fail_counts(state) ==
    state.failed = 0 /\ state.allowed_fail = 0

\* The value write_run_finish returns when none of its writes fails.
write_run_finish(state) == state.failed = 0

\* An IO error of the run is taken for a success.
test_main_error_dropped(result) ==
    IF result = Ok(FALSE) THEN "exit(101)" ELSE "returned"

\* match run_tests_console(&opts, tests): Ok(true) => {}, Ok(false) and
\* Err(e) => process::exit(101)
test_main(result) ==
    IF result = Ok(TRUE) THEN "returned" ELSE "exit(101)"

\* run_tests has returned: the error goes up through `?`; after Ok the
\* assertion and write_run_finish follow, whose writes can fail; test_main
\* returns or ends the process, and with the process its threads.
TestMainFinish ==
    /\ pc \in {"done", "err"}
    /\ IF pc = "done" /\ current_test_count(st) # st.total
       THEN /\ pc' = "panic"
            /\ panicked' = TRUE
            /\ UNCHANGED <<workers, x_log>>
       ELSE \E written \in (IF pc = "done" THEN {"ok", "failed"} ELSE {"not_called"}) :
            LET result == IF written = "ok" THEN Ok(write_run_finish(st)) ELSE ErrIo
            IN /\ x_log' = Append(x_log,
                      [step |-> "test_main", run_tests |-> pc, written |-> written,
                       result |-> result, status |-> test_main(result)])
               /\ workers' = IF test_main(result) = "returned" THEN workers ELSE {}
               /\ pc' = "exited"
               /\ UNCHANGED panicked
    /\ UNCHANGED <<opts, tests, filtered_tests, remaining, filtered_benchs, pending,
                   running_tests, rx, res, now, events, st, filterVars, sampler,
                   cap, junit>>

\* The options of these runs: exclude_should_panic lets the filter drop
\* entries.
MainOpts ==
    {o \in [filter : {None},
            filter_exact : {FALSE},
            skip : {<<>>},
            exclude_should_panic : BOOLEAN,
            run_ignored : {"No"},
            run_tests : BOOLEAN,
            bench_benchmarks : BOOLEAN,
            test_threads : 1..MaxConcurrency] :
        o.run_tests \/ o.bench_benchmarks}

InitMain ==
    /\ opts \in MainOpts
    /\ tests \in SeqsUpTo(RunEntries, MaxMainTests)
    /\ pc = "start"
    /\ filtered_tests = <<>>
    /\ remaining = <<>>
    /\ filtered_benchs = <<>>
    /\ pending = 0
    /\ running_tests = <<>>
    /\ rx = <<>>
    /\ res = None
    /\ workers = {}
    /\ panicked = FALSE
    /\ now = 0
    /\ events = <<>>
    /\ st = [total |-> 0, passed |-> 0, failed |-> 0, ignored |-> 0,
             allowed_fail |-> 0, measured |-> 0, filtered_out |-> 0,
             failures |-> <<>>, not_failures |-> <<>>]
    /\ f_pc = "start"
    /\ f_once = <<>>
    /\ f_twice = <<>>
    /\ x_log = <<>>
    /\ SamplerIdle
    /\ CaptureIdle
    /\ JUnitIdle

NextMain ==
    \/ Next
    \/ TestMainFinish

SpecMain == InitMain /\ [][NextMain]_vars

\* How test_main ended.
MainEnd == x_log[Len(x_log)]

---------------------------------------------------------------------------
(* Claims about the console callback. *)

\* The events the step hands to the callback.
NewEvents == SubSeq(events', Len(events) + 1, Len(events'))

\* Those of them for which the callback returns Ok: the callback that fails
\* is the last one of the step.
HandledEvents ==
    IF pc' = "err" /\ NewEvents # <<>> THEN Front(NewEvents) ELSE NewEvents

\* The counter that belongs to an outcome.
CounterOf(result) ==
    CASE result.tag = "TrOk"          -> "passed"
      [] result.tag = "TrIgnored"     -> "ignored"
      [] result.tag = "TrAllowedFail" -> "allowed_fail"
      [] result.tag = "TrBench"       -> "measured"
      [] result.tag = "TrFailed"      -> "failed"
      [] result.tag = "TrFailedMsg"   -> "failed"

\* The descriptors of the Result events of evs whose outcome is among tags.
ResultDescsWith(evs, tags) ==
    LET sel == SelectSeq(evs, LAMBDA e : e.type = "TeResult" /\ e.result.tag \in tags)
    IN [i \in DOMAIN sel |-> sel[i].desc]

\* C24: each Result event the callback handles adds one to the counter of
\* its outcome and to no other; failures grows by the entry of each Failed
\* and FailedMsg result and not_failures by that of each Ok result; total
\* and filtered_out change only with the Filtered and FilteredOut events;
\* Wait and Timeout events change nothing.
ThmC24_CallbackFrame ==
    [][/\ \A c \in {"passed", "ignored", "allowed_fail", "measured", "failed"} :
             st'[c] = st[c] + Cardinality({i \in DOMAIN HandledEvents :
                                              /\ HandledEvents[i].type = "TeResult"
                                              /\ CounterOf(HandledEvents[i].result) = c})
       /\ st'.failures =
             st.failures \o ResultDescsWith(HandledEvents, {"TrFailed", "TrFailedMsg"})
       /\ st'.not_failures = st.not_failures \o ResultDescsWith(HandledEvents, {"TrOk"})
       /\ (\A i \in DOMAIN HandledEvents : HandledEvents[i].type # "TeFiltered")
             => st'.total = st.total
       /\ (\A i \in DOMAIN HandledEvents : HandledEvents[i].type # "TeFilteredOut")
             => st'.filtered_out = st.filtered_out
       /\ (\A i \in DOMAIN HandledEvents : HandledEvents[i].type \in {"TeWait", "TeTimeout"})
             => st' = st]_vars

\* The callback has handled a failure, a success and a timeout: each list
\* has one entry.
WitC24_FailureAndSuccessListed ==
    /\ Len(st.failures) = 1
    /\ Len(st.not_failures) = 1
    /\ st.allowed_fail = 0
    /\ st.failed = 1
    /\ st.passed = 1
    /\ \E i \in DOMAIN events : events[i].type = "TeTimeout"

---------------------------------------------------------------------------
(* Claims about the initial events. *)

\* Both initial events have been handled by the callback.
AfterInitialEvents ==
    \/ Len(events) >= 3
    \/ /\ Len(events) = 2
       /\ pc # "err"
       /\ pc = "exited" => MainEnd.run_tests = "done"

\* C25: the FilteredOut event carries the length of the list given to
\* run_tests minus the length of the filtered list, which does not change
\* afterwards; once both initial events are handled, filtered_out is that
\* value and total the length of the filtered list, so that their sum is
\* the number of entries supplied.
ThmC25_FilteredOutPlusTotal ==
    /\ [][pc = "start" /\ pc' # "start" =>
            /\ events' = <<TeFilteredOut(Len(tests) - Len(filtered_tests'))>>
            /\ st'.filtered_out + Len(filtered_tests') = Len(tests)]_vars
    /\ [][pc # "start" => filtered_tests' = filtered_tests]_vars
    /\ [](AfterInitialEvents =>
            /\ st.filtered_out = events[1].n
            /\ events[2] = TeFiltered(descs_of(filtered_tests))
            /\ st.total = Len(filtered_tests))

\* Of two entries one has been filtered out and one kept.
WitC25_OneDroppedOneKept ==
    /\ AfterInitialEvents
    /\ st.filtered_out = 1
    /\ st.total = 1

---------------------------------------------------------------------------
(* Claims about the TimeoutTable. *)

\* The run is in its concurrent loop.
InConcurrentLoop ==
    /\ concurrency >= 2
    /\ pc \in {"outer", "wait", "harvest"}

\* The descriptors of the tests dispatched whose Result is not yet emitted.
InFlightDescs ==
    {d \in EventDescs : CountEvents("TeWait", d) > CountEvents("TeResult", d)}

\* C26 as stated: in every state of the concurrent loop every in-flight
\* test has its entry in running_tests.
CexC26_EveryInFlightInTable ==
    InConcurrentLoop => \A d \in InFlightDescs : d \in DOMAIN running_tests

\* C26, amended: in every state of the concurrent loop of a run with distinct
\* descriptors, every in-flight test for which no Timeout event has been
\* emitted has its entry in running_tests (a map: one entry per key).
ThmC26_InFlightNotTimedOutInTable ==
    InConcurrentLoop /\ DistinctDescs =>
        \A d \in InFlightDescs :
            CountEvents("TeTimeout", d) = 0 => d \in DOMAIN running_tests

\* Two tests are in flight: one was reported as timed out and has left the
\* table, the other still has its entry.
WitC26_HarvestedAndWaiting ==
    /\ InConcurrentLoop
    /\ DistinctDescs
    /\ \E d1, d2 \in InFlightDescs :
          /\ CountEvents("TeTimeout", d1) = 1
          /\ d1 \notin DOMAIN running_tests
          /\ CountEvents("TeTimeout", d2) = 0
          /\ d2 \in DOMAIN running_tests

\* run_tests has returned Ok.
ReturnedOk ==
    \/ pc = "done"
    \/ pc = "exited" /\ MainEnd.run_tests = "done"

\* C27: when run_tests returns Ok, running_tests is empty and pending is 0,
\* whatever the concurrency, the order of the completions and the timeouts,
\* and whether or not descriptors repeat.
ThmC27_TableEmptyAtReturn ==
    ReturnedOk => running_tests = <<>> /\ pending = 0

\* A concurrent run of two entries with the same descriptor has returned Ok
\* after a timeout.
WitC27_RepeatedDescriptorTimedOut ==
    /\ ReturnedOk
    /\ concurrency >= 2
    /\ Len(filtered_tests) = 2
    /\ ~ DistinctDescs
    /\ \E i \in DOMAIN events : events[i].type = "TeTimeout"
    /\ Cardinality({i \in DOMAIN events : events[i].type = "TeResult"}) = 2

---------------------------------------------------------------------------
(* Claims about termination. *)

\* The run loop is blocked in rx.recv() or rx.recv_timeout().
BlockedInRecv ==
    \/ pc \in {"serial_recv", "bench_recv", "wait"}
    \/ pc = "outer" /\ concurrency >= 2 /\ InWait

\* Messages still to come or to be received: bodies in execution and
\* messages in the channel.
Outstanding == Cardinality(workers) + Len(rx)

NewTimeouts == SelectSeq(NewEvents, LAMBDA e : e.type = "TeTimeout")

\* The descriptors of a sequence of events, as a set.
DescsOf(evs) == {evs[i].desc : i \in DOMAIN evs}

\* The step follows a return of recv_timeout with a message.
AfterReceivedValue == pc = "harvest" /\ res # ErrTimeout

\* C29 (as stated): the step that follows a receive that returned a message
\* harvests nothing: it emits no Timeout event and leaves the entries of the
\* TimeoutTable other than the delivered one alone.
CexC29_NoHarvestAfterValue ==
    [][AfterReceivedValue =>
          /\ NewTimeouts = <<>>
          /\ \A d \in DOMAIN running_tests :
                d # res[2].desc => d \in DOMAIN running_tests']_vars

\* C29 (amended): Timeout events are emitted only in the wait phase after a
\* return of the timed receive, and there after every return, whether it
\* timed out or returned a message: unless a callback fails, the step emits
\* one Timeout event for each entry whose deadline has passed and removes
\* these entries; after a timeout it emits nothing else and re-enters the
\* wait phase, after a message it then leaves the wait phase with the
\* delivery of that message, the Result event coming after the Timeouts.
\* (Steps of the worker threads and of the clock leave pc at "harvest".)
ThmC29_HarvestAfterEveryReturn ==
    /\ [][NewTimeouts # <<>> => pc = "harvest"]_vars
    /\ [][(pc = "harvest" /\ pc' \notin {"harvest", "err"}) =>
            LET expired == get_timed_out_tests(running_tests, now)
            IN /\ DescsOf(NewTimeouts) = expired
               /\ Len(NewTimeouts) = Cardinality(expired)
               /\ DOMAIN running_tests' \cap expired = {}
               /\ IF res = ErrTimeout
                  THEN /\ NewEvents = NewTimeouts
                       /\ pc' = "wait"
                       /\ DOMAIN running_tests' = DOMAIN running_tests \ expired
                  ELSE /\ NewEvents = NewTimeouts \o <<TeResult(res[2].desc, res[2].result)>>
                       /\ pc' = "outer"
                       /\ DOMAIN running_tests' =
                              DOMAIN running_tests \ (expired \cup {res[2].desc})]_vars

\* A message was received after the deadline of its own test and of another
\* test that is still running: the step that follows emits both Timeouts.
WitC29_ValueReceivedTwoExpired ==
    /\ AfterReceivedValue
    /\ Cardinality(get_timed_out_tests(running_tests, now)) = 2
    /\ res[2].desc \in DOMAIN running_tests
    /\ workers # {}

\* ---------------------------------------------------------------------
\* Runs with the instant of each message recorded against the deadline
\* ---------------------------------------------------------------------

\* A body ends and its thread sends the message; the history records
\* whether the deadline of the test was still ahead at that instant.
BodyFinishTimed ==
    \E w \in workers :
    \E body \in (IF IsTestFn(w.testfn) THEN TestBodies ELSE BenchBodies) :
        /\ BodyFinishWith(w, body, <<>>)
        /\ UNCHANGED <<sampler, cap, junit>>
        /\ x_log' = IF rx' = rx THEN x_log
                    ELSE Append(x_log, [step |-> "body", desc |-> w.desc,
                                        before_deadline |->
                                            /\ w.desc \in DOMAIN running_tests
                                            /\ now < running_tests[w.desc]])

NextTimed ==
    \/ RunStart \/ EmitFiltered \/ SerialDispatch \/ SerialRecv \/ SerialDone
    \/ Admit \/ ConcurrentDone \/ RecvTimeoutOk \/ RecvTimeoutExpired \/ Harvest
    \/ RecvBlocking \/ BenchDispatch \/ BenchRecv \/ RunTestsReturn
    \/ BodyFinishTimed \/ Tick

SpecTimed == InitMain /\ [][NextTimed]_vars

\* The tests whose message was sent before their deadline had passed.
SentBeforeDeadline ==
    {x_log[i].desc : i \in {j \in DOMAIN x_log : /\ x_log[j].step = "body"
                                                 /\ x_log[j].before_deadline}}

\* C30: in a run with distinct descriptors, no Timeout event is emitted for a
\* test whose body had finished and sent its message before the deadline of
\* the test passed.
CexC30_NoTimeoutForFinishedTest ==
    DistinctDescs =>
        \A i \in DOMAIN events :
            events[i].type = "TeTimeout" => events[i].desc \notin SentBeforeDeadline

\* ---------------------------------------------------------------------
\* Claims about the instants of the Timeout events
\* ---------------------------------------------------------------------

\* The descriptors of the events of a type among the events a step appends.
NewDescs(type) ==
    {NewEvents[i].desc : i \in {j \in DOMAIN NewEvents : NewEvents[j].type = type}}

\* C31: the deadline entered at the admission of a test is the instant of
\* the admission plus TEST_WARN_TIMEOUT_S and is not moved to an earlier
\* instant afterwards; a Timeout(t) is emitted only at an instant at or after
\* the deadline in t's entry; and a test whose Result is emitted before its
\* deadline has no Timeout event, neither before that Result nor (with
\* pairwise distinct descriptors) after it.
ThmC31_NoTimeoutBeforeDeadline ==
    /\ [][\A d \in NewDescs("TeWait") :
            concurrency >= 2 /\ pc = "outer" =>
                /\ d \in DOMAIN running_tests'
                /\ running_tests'[d] = now + TEST_WARN_TIMEOUT_S]_vars
    /\ [][\A d \in DOMAIN running_tests \cap DOMAIN running_tests' :
            running_tests'[d] >= running_tests[d]]_vars
    /\ [][\A d \in NewDescs("TeTimeout") :
            /\ d \in DOMAIN running_tests
            /\ now >= running_tests[d]
            /\ now' = now]_vars
    /\ [][\A d \in NewDescs("TeResult") :
            (DistinctDescs /\ d \in DOMAIN running_tests /\ now < running_tests[d]) =>
                \A i \in DOMAIN events' :
                    ~ (events'[i].type = "TeTimeout" /\ events'[i].desc = d)]_vars
    /\ [](DistinctDescs =>
            \A i, j \in DOMAIN events :
                (i < j /\ events[i].type = "TeResult" /\ events[j].type = "TeTimeout")
                    => events[i].desc # events[j].desc)

\* A Timeout was emitted at the very instant of the deadline of a test
\* admitted at 0, and another test has its Result and no Timeout.
WitC31_TimeoutAtDeadlineOtherInTime ==
    /\ DistinctDescs
    /\ now = TEST_WARN_TIMEOUT_S
    /\ \E i, j \in DOMAIN events :
          /\ events[i].type = "TeTimeout"
          /\ events[j].type = "TeResult"
          /\ events[j].desc # events[i].desc
          /\ CountEvents("TeTimeout", events[j].desc) = 0

\* C32: with pairwise distinct descriptors no entry has more than one
\* Timeout event; the step that emits Timeout(t) takes t out of the
\* TimeoutTable, and t does not come back however long its body runs.
ThmC32_AtMostOneTimeout ==
    /\ [](DistinctDescs => \A d \in EventDescs : CountEvents("TeTimeout", d) <= 1)
    /\ [][\A d \in NewDescs("TeTimeout") : d \notin DOMAIN running_tests']_vars
    /\ [](DistinctDescs =>
            \A d \in DOMAIN running_tests : CountEvents("TeTimeout", d) = 0)

\* A test reported as timed out is still running when a later harvest
\* reports another test, admitted after it: the first one is not reported
\* again.
WitC32_LongRunningReportedOnce ==
    /\ DistinctDescs
    /\ \E w \in workers :
       \E i, j \in DOMAIN events :
          /\ i < j
          /\ events[i] = TeTimeout(w.desc)
          /\ events[j].type = "TeTimeout"
          /\ events[j].desc # w.desc
          /\ \E k \in (i + 1)..(j - 1) : events[k] = TeWait(events[j].desc)

\* ---------------------------------------------------------------------
\* Claims about the serial path and the order of dispatch
\* ---------------------------------------------------------------------

\* C33: with concurrency == 1 every Wait(t) that has a successor in the
\* event sequence is directly followed by Result(t), every Result directly
\* follows the Wait of its test, at most one entry is in flight, no Timeout
\* event is emitted and the TimeoutTable stays as it was created, empty.
ThmC33_SerialAlternation ==
    concurrency = 1 =>
        /\ \A i \in DOMAIN events :
              /\ (events[i].type = "TeWait" /\ i < Len(events)) =>
                    /\ events[i + 1].type = "TeResult"
                    /\ events[i + 1].desc = events[i].desc
              /\ events[i].type = "TeResult" =>
                    /\ events[i - 1].type = "TeWait"
                    /\ events[i - 1].desc = events[i].desc
              /\ events[i].type # "TeTimeout"
        /\ InFlight \in {0, 1}
        /\ Cardinality(workers) + Len(rx) <= 1
        /\ running_tests = <<>>
        /\ pending = 0

\* A serial run of two tests has returned Ok: Wait, Result, Wait, Result.
WitC33_TwoSerialTests ==
    /\ concurrency = 1
    /\ pc = "done"
    /\ Len(events) = 6
    /\ events[3].type = "TeWait" /\ events[4].type = "TeResult"
    /\ events[5].type = "TeWait" /\ events[6].type = "TeResult"
    /\ events[3].desc # events[5].desc
    /\ events[4].result.tag # "TrIgnored"

\* The descriptors of the Wait events, in the order of the events.
WaitDescs ==
    LET waits == SelectSeq(events, LAMBDA e : e.type = "TeWait")
    IN [i \in DOMAIN waits |-> waits[i].desc]

\* C34: for every concurrency, the Waits of the test entries are emitted in
\* the order of the filtered list, which is ascending by name: in every state
\* they are a prefix of the tests of the filtered list, and the whole of it
\* once run_tests has returned Ok.
ThmC34_WaitsInListOrder ==
    LET w == TestsOf(WaitDescs)
        f == TestsOf(descs_of(filtered_tests))
    IN /\ Len(w) <= Len(f)
       /\ w = SubSeq(f, 1, Len(w))
       /\ NonDecreasingDescs(w)
       /\ pc = "done" => w = f

\* A concurrent run of two tests has returned Ok; the Waits came in name
\* order and the Results in the opposite order.
WitC34_ResultsAgainstDispatchOrder ==
    /\ pc = "done"
    /\ concurrency >= 2
    /\ Len(TestsOf(WaitDescs)) = 2
    /\ str_cmp(as_slice(WaitDescs[1].name), as_slice(WaitDescs[2].name)) = "Less"
    /\ ResultDescs = <<WaitDescs[2], WaitDescs[1]>>

\* ---------------------------------------------------------------------
\* Claims about the result channel
\* ---------------------------------------------------------------------

\* The tests reported as timed out whose body is still running.
HarvestedStillRunning == {w \in workers : w.desc \in HarvestedInFlight}

\* C35: in every state of the concurrent run loop the messages waiting in
\* the channel number at most K plus the harvested tests still running; in
\* fact they and the running bodies together number at most pending, which
\* is at most K.
ThmC35_ChannelBounded ==
    InConcurrentLoop =>
        /\ Len(rx) <= concurrency + Cardinality(HarvestedStillRunning)
        /\ Len(rx) + Cardinality(workers) <= pending
        /\ pending <= concurrency

\* K messages wait in the channel while a further test waits for admission.
WitC35_ChannelFull ==
    /\ InConcurrentLoop
    /\ Len(rx) = concurrency
    /\ remaining # <<>>

\* ---------------------------------------------------------------------
\* Claims about IO errors
\* ---------------------------------------------------------------------

\* C36: the step at which a callback returns an IO error emits the event of
\* that callback last, counts the events before it only, and starts no test;
\* afterwards no event is emitted, no test is dispatched and nothing of the
\* run's state changes until test_main ends the process, with status 101 and
\* without a call of write_run_finish.
ThmC36_IoErrorEndsRun ==
    /\ [][(pc # "err" /\ pc' = "err") =>
            /\ NewEvents # <<>>
            /\ st' = callback_all(Front(NewEvents), st)
            /\ workers' = workers
            /\ Len(rx') <= Len(rx)]_vars
    /\ [][pc = "err" =>
            /\ events' = events
            /\ st' = st
            /\ remaining' = remaining
            /\ filtered_benchs' = filtered_benchs
            /\ running_tests' = running_tests
            /\ pending' = pending
            /\ workers' \subseteq workers
            /\ pc' \in {"err", "exited"}]_vars
    /\ []((pc = "exited" /\ MainEnd.run_tests = "err") =>
            /\ MainEnd.written = "not_called"
            /\ MainEnd.result = ErrIo
            /\ MainEnd.status = "exit(101)")

\* The callback failed at the Wait of the first test of a concurrent run:
\* the process has ended with 101, the test was not started and the second
\* one was never dispatched.
WitC36_FailedAtFirstWait ==
    /\ pc = "exited"
    /\ MainEnd.run_tests = "err"
    /\ concurrency >= 2
    /\ Len(events) = 3
    /\ events[3].type = "TeWait"
    /\ Len(remaining) = 1
    /\ rx = <<>>

\* ---------------------------------------------------------------------------
\* The sampling loop of a benchmark (iter)
\* ---------------------------------------------------------------------------

\* The width of the integers of the sampling loop. The code counts in u64;
\* here the word has WordBits bits, wide enough for ns_target_total and for
\* several doublings above it, so that the guard of the doubling is reached
\* from the largest initial n as well as from the smallest.
WordBits == 24

U64_MAX == 2^WordBits - 1

\* u64::checked_mul: the product, or None when it does not fit the word.
checked_mul(a, b) == IF a * b <= U64_MAX THEN Some(a * b) ELSE None

\* The unchecked product as a release build computes it.
wrapping_mul(a, b) == (a * b) % (2^WordBits)

ns_target_total == 1000000

\* The first measurement: nanoseconds taken by one call of the body.
NsSingles == {0, 1, 3, 999999, 1000000, 1000001, U64_MAX}

\* The wall-clock time of one iteration of the loop, in milliseconds.
LoopRuns == {0, 150, 1600}

\* The doubling guarded by a multiplier of ten, as a guard of two would be.
next_n_guard_of_two(n) ==
    IF checked_mul(n, 2) # None THEN Some(wrapping_mul(n, 2)) ELSE None

\* The end of an iteration: the doubled n, or None when the loop returns
\* because n * 10 does not fit.
next_n(n) ==
    IF checked_mul(n, 10) # None THEN Some(wrapping_mul(n, 2)) ELSE None

\* The first run and the choice of the initial n.
IterStart ==
    /\ sampler.pc = "idle"
    /\ \E ns_single \in NsSingles :
          \E n0 \in {ns_target_total \div Max(1, ns_single)} :
             sampler' = [pc |-> "loop", ns_single |-> ns_single, n |-> Max(1, n0),
                         total_run |-> 0, loops |-> 0, wrapped |-> FALSE]
    /\ UNCHANGED <<runVars, opts, tests, filterVars, x_log, cap, junit>>

\* One iteration of the loop: fifty samples of n calls, fifty of 5 * n
\* calls, then the three stopping rules in the order of the code. The
\* statistics of the samples depend on the timings alone; stable says
\* whether they satisfy the two conditions on the medians.
IterLoop ==
    /\ sampler.pc = "loop"
    /\ \E loop_run \in LoopRuns, stable \in BOOLEAN :
          \E wraps \in {5 * sampler.n > U64_MAX} :
          \E total \in {sampler.total_run + loop_run} :
          \E nxt \in {next_n(sampler.n)} :
             sampler' =
                IF loop_run > 100 /\ stable
                THEN [sampler EXCEPT !.pc = "returned", !.loops = @ + 1,
                                     !.wrapped = @ \/ wraps]
                ELSE IF total > 3000
                THEN [sampler EXCEPT !.pc = "returned", !.loops = @ + 1,
                                     !.wrapped = @ \/ wraps,
                                     !.total_run = total]
                ELSE IF nxt = None
                THEN [sampler EXCEPT !.pc = "returned", !.loops = @ + 1,
                                     !.wrapped = @ \/ wraps,
                                     !.total_run = total]
                ELSE [sampler EXCEPT !.n = nxt[1], !.loops = @ + 1,
                                     !.wrapped = @ \/ wraps,
                                     !.total_run = total]
    /\ UNCHANGED <<runVars, opts, tests, filterVars, x_log, cap, junit>>

InitIter ==
    /\ opts = CHOOSE o \in ExecOpts : TRUE
    /\ tests = <<>>
    /\ f_pc = "start"
    /\ f_once = <<>>
    /\ f_twice = <<>>
    /\ x_log = <<>>
    /\ SamplerIdle
    /\ CaptureIdle
    /\ JUnitIdle
    /\ RunIdle

NextIter == IterStart \/ IterLoop

\* The body of the benchmark returns from every call, so the loop always
\* takes its next step.
SpecIter == InitIter /\ [][NextIter]_vars /\ WF_vars(NextIter)

\* ---------------------------------------------------------------------------
\* Claims about the sampling loop
\* ---------------------------------------------------------------------------

\* C37: the sampling loop ends and never overflows. The initial n is
\* max(1, 1_000_000 / max(1, ns_single)) and lies in 1 .. 1_000_000; every
\* iteration that does not return doubles n; the product 5 * n of an
\* iteration fits the word; the number of iterations is bounded by the width
\* of the word whatever the timings are; and the loop returns.
ThmC37_SamplerTerminatesNoOverflow ==
    /\ [][sampler.pc = "idle" /\ sampler'.pc = "loop"
            => /\ sampler'.n = Max(1, ns_target_total \div Max(1, sampler'.ns_single))
               /\ 1 <= sampler'.n /\ sampler'.n <= ns_target_total]_vars
    /\ [][sampler.pc = "loop" /\ sampler'.pc = "loop"
            => /\ sampler'.n = 2 * sampler.n
               /\ sampler'.loops = sampler.loops + 1]_vars
    /\ [](sampler.pc # "idle"
            => /\ ~ sampler.wrapped
               /\ 5 * sampler.n <= U64_MAX
               /\ sampler.loops <= WordBits)
    /\ <>(sampler.pc = "returned")

\* The loop is left through the overflow guard alone: no iteration took
\* any time, n began at 1 and was doubled until ten times n no longer fits.
WitC37_ReturnedByOverflowGuard ==
    /\ sampler.pc = "returned"
    /\ sampler.ns_single = U64_MAX
    /\ sampler.total_run = 0
    /\ sampler.loops > 10
    /\ checked_mul(sampler.n, 10) = None
    /\ checked_mul(sampler.n, 5) # None

\* ---------------------------------------------------------------------------
\* The print and panic sinks around a body (set_print, set_panic)
\* ---------------------------------------------------------------------------

\* The thread on which the body of w runs: the caller of run_test, or the
\* thread spawned for w.
ThreadOf(w) == IF w.thread = "caller" THEN MainThread ELSE w.idx

\* The sinks of thread th; a thread that has set none has the standard ones.
LocalSinks(io, th) == IF th \in DOMAIN io THEN io[th] ELSE NoSinks

\* Sink(data): the writer over the buffer made for w.
Sink(w) == [data |-> w.idx]

\* The sinks the harness finds in place on its thread, set by its caller.
OuterSinks == [print |-> Some([data |-> 0]), panic |-> Some([data |-> 0])]

\* set_print over one handle shared by all threads.
set_print_process_wide(unstable, io, th, sink) ==
    IF unstable
    THEN [ret |-> io[MainThread].print,
          io  |-> [io EXCEPT ![MainThread].print = sink]]
    ELSE [ret |-> sink, io |-> io]

\* set_print: ret is the value returned, io the sinks after the call. With
\* the feature "unstable" it is io::set_print, which replaces the handle of
\* the calling thread and returns the one replaced; without the feature it
\* returns its argument and changes nothing.
set_print(unstable, io, th, sink) ==
    IF unstable
    THEN [ret |-> LocalSinks(io, th).print,
          io  |-> (th :> [LocalSinks(io, th) EXCEPT !.print = sink]) @@ io]
    ELSE [ret |-> sink, io |-> io]

\* set_panic: as set_print, for the handle a panic message is written to.
set_panic(unstable, io, th, sink) ==
    IF unstable
    THEN [ret |-> LocalSinks(io, th).panic,
          io  |-> (th :> [LocalSinks(io, th) EXCEPT !.panic = sink]) @@ io]
    ELSE [ret |-> sink, io |-> io]

\* The threads that are between their swap and their restore.
Capturing == {w \in DOMAIN cap.oldio : cap.oldio[w] # None}

\* The start of runtest on the thread of w: oldio is None with nocapture,
\* and otherwise holds what set_print and set_panic returned.
CaptureSwapIn ==
    \E w \in workers \ DOMAIN cap.oldio :
    \E th \in {ThreadOf(w)} :
    \E p1 \in {set_print(cap.unstable, cap.io, th, Some(Sink(w)))} :
    \E p2 \in {set_panic(cap.unstable, p1.io, th, Some(Sink(w)))} :
        /\ cap' = IF cap.nocapture
                  THEN [cap EXCEPT !.oldio = (w :> None) @@ @]
                  ELSE [cap EXCEPT !.oldio = (w :> Some(<<p1.ret, p2.ret>>)) @@ @,
                                   !.io = p2.io,
                                   !.overlapped = @ \/ Capturing # {}]
        /\ UNCHANGED <<runVars, opts, tests, filterVars, x_log, sampler, junit>>

\* The rest of runtest on the thread of w: the body ends or unwinds, the
\* sinks of oldio are put back, the result is computed and sent.
BodyFinishCaptured ==
    \E w \in DOMAIN cap.oldio :
    \E body \in (IF IsTestFn(w.testfn) THEN TestBodies ELSE BenchBodies) :
    \E th \in {ThreadOf(w)} :
    \E oldio \in {cap.oldio[w]} :
    \E rest \in {[x \in DOMAIN cap.oldio \ {w} |-> cap.oldio[x]]} :
        /\ BodyFinishWith(w, body, <<>>)
        /\ IF oldio = None
           THEN cap' = [cap EXCEPT !.oldio = rest]
           ELSE \E p1 \in {set_print(cap.unstable, cap.io, th, oldio[1][1])} :
                \E p2 \in {set_panic(cap.unstable, p1.io, th, oldio[1][2])} :
                    cap' = [cap EXCEPT !.oldio = rest, !.io = p2.io]
        /\ UNCHANGED <<x_log, sampler, junit>>

\* The options of these runs: the tests are run, with or without the
\* benchmarks, on one thread or more.
CaptureOpts == {o \in MainOpts : o.run_tests /\ ~ o.exclude_should_panic}

\* The builds, the option nocapture and the sinks found on the main thread.
InitCapture ==
    /\ opts \in CaptureOpts
    /\ tests \in SeqsUpTo(RunEntries, MaxMainTests)
    /\ pc = "start"
    /\ filtered_tests = <<>>
    /\ remaining = <<>>
    /\ filtered_benchs = <<>>
    /\ pending = 0
    /\ running_tests = <<>>
    /\ rx = <<>>
    /\ res = None
    /\ workers = {}
    /\ panicked = FALSE
    /\ now = 0
    /\ events = <<>>
    /\ st = [total |-> 0, passed |-> 0, failed |-> 0, ignored |-> 0,
             allowed_fail |-> 0, measured |-> 0, filtered_out |-> 0,
             failures |-> <<>>, not_failures |-> <<>>]
    /\ f_pc = "start"
    /\ f_once = <<>>
    /\ f_twice = <<>>
    /\ x_log = <<>>
    /\ SamplerIdle
    /\ JUnitIdle
    /\ \E unstable \in BOOLEAN, nocapture \in BOOLEAN, before \in {OuterSinks} :
          cap = [unstable |-> unstable, nocapture |-> nocapture,
                 before |-> before, io |-> (MainThread :> before),
                 oldio |-> <<>>, overlapped |-> FALSE]

NextCapture ==
    \/ RunStart \/ EmitFiltered \/ SerialDispatch \/ SerialRecv \/ SerialDone
    \/ Admit \/ ConcurrentDone \/ RecvTimeoutOk \/ RecvTimeoutExpired \/ Harvest
    \/ RecvBlocking \/ BenchDispatch \/ BenchRecv \/ RunTestsReturn
    \/ CaptureSwapIn \/ BodyFinishCaptured \/ Tick

SpecCapture == InitCapture /\ [][NextCapture]_vars

\* ---------------------------------------------------------------------------
\* Claims about the sinks
\* ---------------------------------------------------------------------------

XmlDecl ==
    <<60, 63, 120, 109, 108, 32, 118, 101, 114, 115, 105, 111, 110, 61, 34,
      49, 46, 48, 34, 32, 101, 110, 99, 111, 100, 105, 110, 103, 61, 34,
      85, 84, 70, 45, 56, 34, 63, 62>>

\* <testcase classname="test.global" name="
TestcaseHead ==
    <<60, 116, 101, 115, 116, 99, 97, 115, 101, 32, 99, 108, 97, 115, 115,
      110, 97, 109, 101, 61, 34, 116, 101, 115, 116, 46, 103, 108, 111, 98,
      97, 108, 34, 32, 110, 97, 109, 101, 61, 34>>

\* <failure message="
FailureHead ==
    <<60, 102, 97, 105, 108, 117, 114, 101, 32, 109, 101, 115, 115, 97,
      103, 101, 61, 34>>

\* '\n'
Newline == <<10>>

\* The largest number of results handed to one formatter.
MaxJUnitResults == 2

\* Display of an unsigned integer: its decimal digits.
RECURSIVE Dec(_)
Dec(n) == IF n < 10 THEN <<48 + n>> ELSE Dec(n \div 10) \o <<48 + (n % 10)>>

\* Display of the sum of a benchmark's summary: "0" and "12.5".
JUnitSums == {<<48>>, <<49, 50, 46, 53>>}

\* The entries whose results reach the formatter: names "a" and "b\nc",
\* expected strings "x" and "x\n".
JUnitEntries ==
    {TestDescAndFn(StaticTestName(<<97>>), FALSE, ShouldPanicNo, FALSE, "StaticTestFn"),
     TestDescAndFn(StaticTestName(<<97>>), FALSE, YesWithMessage(<<120>>), FALSE,
                   "StaticTestFn"),
     TestDescAndFn(StaticTestName(<<97>>), FALSE, YesWithMessage(<<120, 10>>), FALSE,
                   "StaticTestFn"),
     TestDescAndFn(StaticTestName(<<98, 10, 99>>), FALSE, ShouldPanicNo, FALSE,
                   "DynTestFn"),
     TestDescAndFn(StaticTestName(<<97>>), TRUE, ShouldPanicNo, FALSE, "StaticTestFn"),
     TestDescAndFn(StaticTestName(<<97>>), FALSE, ShouldPanicNo, TRUE, "StaticTestFn"),
     TestDescAndFn(StaticTestName(<<97>>), FALSE, ShouldPanicNo, FALSE, "StaticBenchFn")}

\* The results run_test sends for an entry.
ResultsOf(test) ==
    IF test.desc.ignore THEN {TrIgnored}
    ELSE IF IsTestFn(test.testfn)
    THEN {calc_result(test.desc, body) : body \in TestBodies}
    ELSE UNION {benchmark_result(body) : body \in BenchBodies} \ {Unwound}

\* write_message: the assertion, then write_all of the string and write_all
\* of "\n". budget is the number of calls of write_all that succeed from
\* here on; out is the sequence of the byte strings written.
write_message(out, str, budget) ==
    IF contains(str, Newline) THEN [out |-> out, end |-> "panic"]
    ELSE IF budget = 0 THEN [out |-> out, end |-> "Err"]
    ELSE IF budget = 1 THEN [out |-> Append(out, str), end |-> "Err"]
    ELSE [out |-> Append(Append(out, str), Newline), end |-> "Ok"]

\* A run of write_message(..)? calls: it stops at the first that does not
\* return Ok.
RECURSIVE write_messages(_, _, _)
write_messages(out, lines, budget) ==
    IF lines = <<>> THEN [out |-> out, end |-> "Ok"]
    ELSE LET r == write_message(out, Head(lines), budget)
         IN IF r.end # "Ok" THEN r
            ELSE write_messages(r.out, Tail(lines), budget - 2)

\* The opening line of the testcase element of a result: the name is
\* followed by " time="0"> for a failure, by " time="<sum>" /> for a
\* benchmark and by " time="0"/> otherwise.
testcase_line(desc, result, sum) ==
    LET TestcaseTimeZeroOpen == <<34, 32, 116, 105, 109, 101, 61, 34, 48, 34,
            62>>
        TestcaseTimeZeroEmpty == <<34, 32, 116, 105, 109, 101, 61, 34, 48,
            34, 47, 62>>
        TestcaseTime == <<34, 32, 116, 105, 109, 101, 61, 34>>
        TestcaseBenchEnd == <<34, 32, 47, 62>>
    IN CASE result.tag \in {"TrFailed", "TrFailedMsg"} ->
               TestcaseHead \o as_slice(desc.name) \o TestcaseTimeZeroOpen
         [] result.tag = "TrBench" ->
               TestcaseHead \o as_slice(desc.name) \o TestcaseTime \o sum
                   \o TestcaseBenchEnd
         [] OTHER ->
               TestcaseHead \o as_slice(desc.name) \o TestcaseTimeZeroEmpty

\* The lines of one turn of the loop of write_run_finish; a failure has
\* <failure type="assert"/> or <failure message="<m>" type="assert"/>, and
\* </testcase>.
element_lines(desc, result, sum) ==
    LET FailureAssert == <<60, 102, 97, 105, 108, 117, 114, 101, 32, 116,
            121, 112, 101, 61, 34, 97, 115, 115, 101, 114, 116, 34, 47, 62>>
        FailureEnd == <<34, 32, 116, 121, 112, 101, 61, 34, 97, 115, 115,
            101, 114, 116, 34, 47, 62>>
        TestcaseClose == <<60, 47, 116, 101, 115, 116, 99, 97, 115, 101, 62>>
    IN CASE result.tag = "TrFailed" ->
               <<testcase_line(desc, result, sum), FailureAssert, TestcaseClose>>
         [] result.tag = "TrFailedMsg" ->
               <<testcase_line(desc, result, sum),
                 FailureHead \o result.msg \o FailureEnd, TestcaseClose>>
         [] OTHER -> <<testcase_line(desc, result, sum)>>

RECURSIVE loop_lines(_, _)
loop_lines(results, sum) ==
    IF results = <<>> THEN <<>>
    ELSE element_lines(Head(results)[1], Head(results)[2], sum)
            \o loop_lines(Tail(results), sum)

\* The three lines written before the buffer is taken.
\* elapsed_time is shown as 0.25 and timestamp as 2019-06-01T12:00:00+00:00.
header_lines(state) ==
    LET TestsuitesOpen == <<60, 116, 101, 115, 116, 115, 117, 105, 116, 101,
            115, 62>>
        TestsuiteHead == <<60, 116, 101, 115, 116, 115, 117, 105, 116, 101,
            32, 110, 97, 109, 101, 61, 34, 116, 101, 115, 116, 34, 32, 112,
            97, 99, 107, 97, 103, 101, 61, 34, 116, 101, 115, 116, 34, 32,
            105, 100, 61, 34, 48, 34, 32, 104, 111, 115, 116, 110, 97, 109,
            101, 61, 34, 108, 111, 99, 97, 108, 104, 111, 115, 116, 34, 32,
            101, 114, 114, 111, 114, 115, 61, 34, 48, 34, 32, 102, 97, 105,
            108, 117, 114, 101, 115, 61, 34>>
        TestsuiteTests == <<34, 32, 116, 101, 115, 116, 115, 61, 34>>
        TestsuiteTime == <<34, 32, 116, 105, 109, 101, 61, 34>>
        JUnitElapsed == <<48, 46, 50, 53>>
        TestsuiteTimestamp == <<34, 32, 116, 105, 109, 101, 115, 116, 97,
            109, 112, 61, 34>>
        JUnitTimestamp == <<50, 48, 49, 57, 45, 48, 54, 45, 48, 49, 84, 49,
            50, 58, 48, 48, 58, 48, 48, 43, 48, 48, 58, 48, 48>>
        TestsuiteEnd == <<34, 62>>
    IN <<XmlDecl, TestsuitesOpen,
         TestsuiteHead \o Dec(state.failed) \o TestsuiteTests \o Dec(state.total)
             \o TestsuiteTime \o JUnitElapsed \o TestsuiteTimestamp
             \o JUnitTimestamp \o TestsuiteEnd>>

\* <system-out/>, <system-err/>, </testsuite>, </testsuites>
trailer_lines ==
    LET SystemOut == <<60, 115, 121, 115, 116, 101, 109, 45, 111, 117, 116,
            47, 62>>
        SystemErr == <<60, 115, 121, 115, 116, 101, 109, 45, 101, 114, 114,
            47, 62>>
        TestsuiteClose == <<60, 47, 116, 101, 115, 116, 115, 117, 105, 116,
            101, 62>>
        TestsuitesClose == <<60, 47, 116, 101, 115, 116, 115, 117, 105, 116,
            101, 115, 62>>
    IN <<SystemOut, SystemErr, TestsuiteClose, TestsuitesClose>>

\* write_run_finish that walks the buffer without taking it.
junit_write_run_finish_buffer_kept(f, state, sum, budget) ==
    LET head == write_messages(f.out, header_lines(state), budget)
        rest == write_messages(head.out, loop_lines(f.results, sum) \o trailer_lines,
                               budget - 2 * Len(header_lines(state)))
    IN IF head.end # "Ok"
       THEN [f EXCEPT !.out = head.out, !.pc = head.end]
       ELSE [f EXCEPT !.out = rest.out, !.pc = rest.end]

\* JUnitFormatter::write_run_finish: the formatter after the call; pc is
\* "Ok" when it returned Ok, "Err" when a write failed, "panic" when the
\* assertion of write_message failed. The buffer is taken by mem::replace
\* once the three header lines are written.
junit_write_run_finish(f, state, sum, budget) ==
    LET head == write_messages(f.out, header_lines(state), budget)
        rest == write_messages(head.out, loop_lines(f.results, sum) \o trailer_lines,
                               budget - 2 * Len(header_lines(state)))
    IN IF head.end # "Ok"
       THEN [f EXCEPT !.out = head.out, !.pc = head.end]
       ELSE [f EXCEPT !.out = rest.out, !.pc = rest.end, !.results = <<>>]

\* The number of write_all calls of a write_run_finish that fails nowhere.
FinishWrites(f, state, sum) ==
    2 * (Len(header_lines(state)) + Len(loop_lines(f.results, sum))
            + Len(trailer_lines))

\* TeFiltered: callback sets st.total and calls write_run_start, which
\* writes the XML declaration.
JUnitWriteRunStart ==
    /\ junit.pc = "new"
    /\ \E n \in 0..MaxJUnitResults, budget \in 0..2 :
       \E r \in {write_message(junit.out, XmlDecl, budget)} :
          /\ st' = callback(TeFiltered([i \in 1..n |->
                                (CHOOSE t \in JUnitEntries : TRUE).desc]), st)
          /\ junit' = [junit EXCEPT !.out = r.out,
                                    !.pc = IF r.end = "Ok" THEN "running" ELSE r.end]
    /\ UNCHANGED <<pc, filtered_tests, remaining, filtered_benchs, pending,
                   running_tests, rx, res, workers, panicked, now, events,
                   opts, tests, filterVars, x_log, sampler, cap>>

\* TeWait: write_test_start writes nothing.
JUnitWriteTestStart ==
    /\ junit.pc = "running"
    /\ UNCHANGED vars

\* TeTimeout: write_timeout writes nothing.
JUnitWriteTimeout ==
    /\ junit.pc = "running"
    /\ UNCHANGED vars

\* TeResult: callback calls write_result, which pushes (desc, result), and
\* then counts the result.
JUnitWriteResult ==
    /\ junit.pc = "running"
    /\ Len(junit.results) < MaxJUnitResults
    /\ \E test \in JUnitEntries :
       \E result \in ResultsOf(test) :
          /\ junit' = [junit EXCEPT !.results = Append(@, <<test.desc, result>>)]
          /\ st' = callback(TeResult(test.desc, result), st)
    /\ UNCHANGED <<pc, filtered_tests, remaining, filtered_benchs, pending,
                   running_tests, rx, res, workers, panicked, now, events,
                   opts, tests, filterVars, x_log, sampler, cap>>

\* The end of run_tests_console: every test counted, write_run_finish(&st).
JUnitWriteRunFinish ==
    /\ junit.pc = "running"
    /\ current_test_count(st) = st.total
    /\ \E sum \in JUnitSums :
       \E budget \in 0..FinishWrites(junit, st, sum) :
          junit' = junit_write_run_finish(junit, st, sum, budget)
    /\ UNCHANGED <<runVars, opts, tests, filterVars, x_log, sampler, cap>>

InitJUnit ==
    /\ opts = CHOOSE o \in ExecOpts : TRUE
    /\ tests = <<>>
    /\ f_pc = "start"
    /\ f_once = <<>>
    /\ f_twice = <<>>
    /\ x_log = <<>>
    /\ SamplerIdle
    /\ CaptureIdle
    /\ RunIdle
    /\ junit = [pc |-> "new", results |-> <<>>, out |-> <<>>]

NextJUnit ==
    \/ JUnitWriteRunStart
    \/ JUnitWriteTestStart
    \/ JUnitWriteTimeout
    \/ JUnitWriteResult
    \/ JUnitWriteRunFinish

SpecJUnit == InitJUnit /\ [][NextJUnit]_vars

\* ---------------------------------------------------------------------------
\* Claims about the JUnit formatter
\* ---------------------------------------------------------------------------

\* The byte strings written by the step.
NewOut == SubSeq(junit'.out, Len(junit.out) + 1, Len(junit'.out))

\* The string opens a testcase element.
IsTestcaseOpen(str) ==
    /\ Len(str) >= Len(TestcaseHead)
    /\ SubSeq(str, 1, Len(TestcaseHead)) = TestcaseHead

\* The opening lines of the testcase elements of the results, in order.
TestcaseLinesOf(results, sum) ==
    [i \in DOMAIN results |-> testcase_line(results[i][1], results[i][2], sum)]

IsPrefix(a, b) == Len(a) <= Len(b) /\ a = SubSeq(b, 1, Len(a))

\* The step is a call of write_result, of write_run_finish.
WriteResultStep == junit.pc = "running" /\ junit'.results # junit.results
                     /\ junit'.pc = "running"

WriteRunFinishStep == junit.pc = "running" /\ junit'.pc # "running"

\* write_result writes nothing and appends one pair to the buffer.
WriteResultBuffers ==
    WriteResultStep
        => /\ junit'.out = junit.out
           /\ Len(junit'.results) = Len(junit.results) + 1
           /\ IsPrefix(junit.results, junit'.results)
           /\ \E test \in JUnitEntries :
                 /\ Last(junit'.results)[1] = test.desc
                 /\ Last(junit'.results)[2] \in ResultsOf(test)

\* C39 as stated: write_result writes nothing and appends to the buffer;
\* every write_run_finish emits exactly one testcase element for each
\* buffered result, in the order of the buffer, and leaves the buffer empty.
CexC39_FinishEmitsEveryResult ==
    [][/\ WriteResultBuffers
       /\ WriteRunFinishStep
            => /\ junit'.results = <<>>
               /\ \E sum \in JUnitSums :
                     SelectSeq(NewOut, IsTestcaseOpen)
                        = TestcaseLinesOf(junit.results, sum)]_vars

\* C39, amended: write_result writes nothing and appends to the buffer;
\* write_run_finish emits testcase elements for buffered results alone, in
\* the order of the buffer and at most one for each: one for every result
\* when it returns Ok, and for those of a leading part of the buffer when a
\* write fails or the assertion of write_message fails. It leaves the
\* buffer empty unless a write of its three header lines fails, and then
\* leaves the buffer as it was.
ThmC39_FinishEmitsBufferedInOrder ==
    [][/\ WriteResultBuffers
       /\ WriteRunFinishStep
            => /\ \E sum \in JUnitSums :
                     /\ IsPrefix(SelectSeq(NewOut, IsTestcaseOpen),
                                 TestcaseLinesOf(junit.results, sum))
                     /\ junit'.pc = "Ok"
                           => SelectSeq(NewOut, IsTestcaseOpen)
                                 = TestcaseLinesOf(junit.results, sum)
               /\ junit'.results = IF Len(NewOut) >= 2 * Len(header_lines(st))
                                   THEN <<>> ELSE junit.results
               /\ junit'.pc = "Ok" => junit'.results = <<>>]_vars

\* write_run_finish has returned Ok after two results, the first of them a
\* failure with a message: two testcase elements are written, the first
\* with its failure line, and the buffer is empty.
WitC39_TwoResultsWritten ==
    /\ junit.pc = "Ok"
    /\ junit.results = <<>>
    /\ Len(SelectSeq(junit.out, IsTestcaseOpen)) = 2
    /\ \E i, j \in DOMAIN junit.out :
          /\ i < j
          /\ IsTestcaseOpen(junit.out[i])
          /\ IsPrefix(FailureHead, junit.out[i + 2])
          /\ IsTestcaseOpen(junit.out[j])
          /\ junit.out[j] # junit.out[i]

\* C40: the assertion of write_message never fails: no string handed to
\* write_message, whatever the names and the messages of the recorded
\* results, contains a newline, so no call of the formatter ends in a panic.
CexC40_WriteMessageAssertionHolds == junit.pc # "panic"

====
